---- MODULE Spec2Model ----
(***************************************************************************)
(* Health export ingestion: the REST server (api_server.py), the REST to   *)
(* gRPC gateway with the gRPC servicer (grpc/gateway.py,                   *)
(* grpc/grpc_server.py) and the GraphQL resolver                           *)
(* (graphql/graphql_server.py), each normalising a raw payload into        *)
(* records and upserting them into the three MySQL tables.                 *)
(*                                                                         *)
(* Conventions of the model:                                               *)
(*  - a Python/JSON/SQL value is a tagged record (Absent, None, IntV,      *)
(*    FloatV, StrV); a float is held in hundredths (FloatV(750) is 7.5);   *)
(*    a string is a sequence of chunks ("D1" stands for "2024-01-15",      *)
(*    "T0" for "00:00:00", " " is a blank);                                *)
(*  - the code does not set the server's sql_mode: in strict mode an empty  *)
(*    string is not a DATE or DATETIME and the statement fails, otherwise  *)
(*    it is stored as the zero date (the variable sql_mode);               *)
(*  - one server process is deployed against the database at a time        *)
(*    (the variable deployment); its global db_connection carries the      *)
(*    open transaction of that process;                                    *)
(*  - CURRENT_TIMESTAMP is the value of the clock `now`, which advances    *)
(*    with every call;                                                     *)
(*  - Spec takes the calls one after the other, each one as a whole, with  *)
(*    what the network does to it (connect, ping, commit) as an input;     *)
(*    Serve takes the gRPC server's worker threads statement by statement  *)
(*    (the variable pool), which Spec leaves idle.                         *)
(***************************************************************************)
EXTENDS Integers, Sequences, FiniteSets, TLC

VARIABLES
    deployment,     \* which server process runs: "rest", "grpc" or "graphql"
    sql_mode,       \* the sql_mode of the MySQL server: "strict" or "lenient"
    rds,            \* committed rows of sleep_data, exercise_data, blood_glucose
    db_connection,  \* the rows as the process's connection sees them (committed + its open transaction)
    now,            \* the clock (CURRENT_TIMESTAMP / datetime.now())
    last,           \* the last call: handler, input, result
    prev,           \* db_connection and rds as they were before the last call
    pool            \* the gRPC worker threads: the call each one is serving and how far it is

vars == <<deployment, sql_mode, rds, db_connection, now, last, prev, pool>>

\* The number of calls a behaviour makes (the clock stops there).
MaxClock == 2

-----------------------------------------------------------------------------
(* Python / JSON / SQL values *)

Absent == [t |-> "absent", n |-> 0, s |-> <<>>]
None == [t |-> "none", n |-> 0, s |-> <<>>]
Raise == [t |-> "raise", n |-> 0, s |-> <<>>]
IntV(i) == [t |-> "int", n |-> i, s |-> <<>>]
FloatV(h) == [t |-> "float", n |-> h, s |-> <<>>]
StrV(q) == [t |-> "str", n |-> 0, s |-> q]

EmptyStr == StrV(<<>>)

\* bool(v) of Python: None, 0, 0.0 and '' are falsy.
Truthy(v) ==
    CASE v.t = "int" -> v.n # 0
      [] v.t = "float" -> v.n # 0
      [] v.t = "str" -> v.s # <<>>
      [] OTHER -> FALSE

\* dict.get(key, default): the default only when the key is missing.
Get(v, default) == IF v = Absent THEN default ELSE v

\* A variant of `x or None` that lets a number through, zero included.
OrNoneKeepZero(v) == IF Truthy(v) \/ v.t \in {"int", "float"} THEN v ELSE None

\* `x or None`
OrNone(v) == IF Truthy(v) THEN v ELSE None

\* `x or y`
PyOr(x, y) == IF Truthy(x) THEN x ELSE y

Digits == <<"0", "1", "2", "3", "4", "5", "6", "7", "8", "9">>

DigitOf(c) == (CHOOSE i \in 1..10 : Digits[i] = c) - 1

IsDigits(q) == q # <<>> /\ \A i \in 1..Len(q) : \E j \in 1..10 : Digits[j] = q[i]

RECURSIVE ParseDigits(_)
ParseDigits(q) ==
    IF q = <<>> THEN 0
    ELSE 10 * ParseDigits(SubSeq(q, 1, Len(q) - 1)) + DigitOf(q[Len(q)])

\* Truncation toward zero of a value in hundredths.
Trunc(h) == IF h >= 0 THEN h \div 100 ELSE -((-h) \div 100)

\* round(v) in place of int(v).
PyIntRounded(v) ==
    CASE v.t = "int" -> v
      [] v.t = "float" -> IntV((v.n + 50) \div 100)
      [] v.t = "str" -> IF IsDigits(v.s) THEN IntV(ParseDigits(v.s)) ELSE Raise
      [] OTHER -> Raise

\* int(v): TypeError on None, ValueError on a string that is no integer.
PyInt(v) ==
    CASE v.t = "int" -> v
      [] v.t = "float" -> IntV(Trunc(v.n))
      [] v.t = "str" -> IF IsDigits(v.s) THEN IntV(ParseDigits(v.s)) ELSE Raise
      [] OTHER -> Raise

\* float(v): TypeError on None, ValueError on a string that is no number.
PyFloat(v) ==
    CASE v.t = "int" -> FloatV(v.n * 100)
      [] v.t = "float" -> v
      [] v.t = "str" -> IF IsDigits(v.s) THEN FloatV(ParseDigits(v.s) * 100) ELSE Raise
      [] OTHER -> Raise

RECURSIVE Repeat(_, _)
\* q * k on a string: k copies of it.
Repeat(q, k) == IF k = 0 THEN <<>> ELSE q \o Repeat(q, k - 1)

\* v * 60: the product of a number, 60 copies of a string, TypeError on None.
Times60(v) ==
    CASE v.t = "int" -> IntV(v.n * 60)
      [] v.t = "float" -> FloatV(v.n * 60)
      [] v.t = "str" -> StrV(Repeat(v.s, 60))
      [] v.t = "none" -> Raise

\* The numeric value of a number in hundredths (for comparisons).
Hundredths(v) == IF v.t = "int" THEN v.n * 100 ELSE v.n

RECURSIVE DropBlanks(_)
DropBlanks(q) == IF q # <<>> /\ Head(q) = " " THEN DropBlanks(Tail(q)) ELSE q

RECURSIVE TakeToken(_)
TakeToken(q) ==
    IF q = <<>> \/ Head(q) = " " THEN <<>> ELSE <<Head(q)>> \o TakeToken(Tail(q))

\* str.split()[0]: the first whitespace-delimited token; IndexError when there is none.
SplitFirst(v) ==
    IF v.t # "str" THEN Raise
    ELSE IF TakeToken(DropBlanks(v.s)) = <<>> THEN Raise
    ELSE StrV(TakeToken(DropBlanks(v.s)))

-----------------------------------------------------------------------------
(* The MySQL tables (create_tables) and the upsert statements *)

SleepMutable ==
    {"bedtime", "wake_time", "sleep_duration_minutes", "deep_sleep_minutes",
     "light_sleep_minutes", "rem_sleep_minutes", "sleep_efficiency",
     "heart_rate_avg", "heart_rate_min", "heart_rate_max"}

\* sleep_data: id, the unique key date, the mutable columns, created_at, updated_at.
SleepColumns == {"id", "date", "created_at", "updated_at"} \cup SleepMutable

ExerciseMutable ==
    {"activity_type", "duration_minutes", "calories_burned", "distance_km", "steps",
     "heart_rate_avg", "heart_rate_max", "active_energy_kcal", "resting_energy_kcal"}

\* exercise_data: id, the unique key timestamp, the mutable columns, created_at.
ExerciseColumns == {"id", "timestamp", "created_at"} \cup ExerciseMutable

GlucoseMutable == {"value", "unit", "source"}

\* blood_glucose: id, the unique key timestamp, the mutable columns, created_at.
GlucoseColumns == {"id", "timestamp", "created_at"} \cup GlucoseMutable

EmptyTables == [sleep_data |-> {}, exercise_data |-> {}, blood_glucose |-> {}]

\* A DATE / DATETIME NOT NULL key column under strict SQL mode: '' and NULL are refused.
SqlModes == {"strict", "lenient"}

\* '0000-00-00' / '0000-00-00 00:00:00': what a server that is not in strict mode stores
\* for '' in a DATE or DATETIME column (with a warning).
ZeroDate == <<"0000-00-00">>

SqlKeyOk(v) == v.t = "str" /\ v.s # <<>>

\* The row INSERT writes: AUTO_INCREMENT id, the VALUES list, DEFAULT CURRENT_TIMESTAMP.
NewRow(tbl, columns, key, data, ts) ==
    [c \in columns |->
        CASE c = "id" -> Cardinality(tbl) + 1
          [] c \in {"created_at", "updated_at"} -> ts
          [] OTHER -> data[c]]

InsertAlways(tbl, columns, key, mutable, data, ts, setUpdated) ==
    tbl \cup {NewRow(tbl, columns, key, data, ts)}

\* INSERT IGNORE: the row already stored under the key is kept.
InsertIgnore(tbl, columns, key, mutable, data, ts, setUpdated) ==
    IF \E r \in tbl : r[key] = data[key] THEN tbl
    ELSE tbl \cup {NewRow(tbl, columns, key, data, ts)}

\* ON DUPLICATE KEY UPDATE c = c + VALUES(c) for the numeric columns.
InsertAccumulate(tbl, columns, key, mutable, data, ts, setUpdated) ==
    IF \E r \in tbl : r[key] = data[key]
    THEN {IF r[key] # data[key] THEN r
          ELSE [c \in columns |->
                  CASE c \in mutable ->
                         IF r[c].t \in {"int", "float"} /\ data[c].t = r[c].t
                         THEN [data[c] EXCEPT !.n = r[c].n + data[c].n]
                         ELSE data[c]
                    [] c = "updated_at" -> ts
                    [] OTHER -> r[c]] : r \in tbl}
    ELSE tbl \cup {NewRow(tbl, columns, key, data, ts)}

\* ON DUPLICATE KEY UPDATE c = COALESCE(VALUES(c), c): a NULL keeps the stored value.
InsertCoalesce(tbl, columns, key, mutable, data, ts, setUpdated) ==
    IF \E r \in tbl : r[key] = data[key]
    THEN {IF r[key] # data[key] THEN r
          ELSE [c \in columns |->
                  CASE c \in mutable -> IF data[c] = None THEN r[c] ELSE data[c]
                    [] c = "updated_at" -> ts
                    [] OTHER -> r[c]] : r \in tbl}
    ELSE tbl \cup {NewRow(tbl, columns, key, data, ts)}

\* INSERT ... ON DUPLICATE KEY UPDATE c = VALUES(c) for the mutable columns, under the
\* UNIQUE KEY on `key`. setUpdated: the statement also says updated_at = CURRENT_TIMESTAMP.
\* Without it updated_at (ON UPDATE CURRENT_TIMESTAMP) moves only when a column changes.
InsertOnDuplicateKeyUpdate(tbl, columns, key, mutable, data, ts, setUpdated) ==
    IF \E r \in tbl : r[key] = data[key]
    THEN {IF r[key] # data[key] THEN r
          ELSE [c \in columns |->
                  CASE c \in mutable -> data[c]
                    [] c = "updated_at" ->
                         IF setUpdated \/ \E m \in mutable : r[m] # data[m]
                         THEN ts ELSE r[c]
                    [] OTHER -> r[c]] : r \in tbl}
    ELSE tbl \cup {NewRow(tbl, columns, key, data, ts)}

\* cursor.execute(sql, data): [ok, tbl]; the statement fails on a refused key.
Execute(tbl, columns, key, mutable, data, ts, setUpdated) ==
    IF SqlKeyOk(data[key])
    THEN [ok |-> TRUE,
          tbl |-> InsertOnDuplicateKeyUpdate(tbl, columns, key, mutable, data, ts, setUpdated)]
    ELSE IF sql_mode = "lenient" /\ data[key] = EmptyStr
    THEN [ok |-> TRUE,
          tbl |-> InsertOnDuplicateKeyUpdate(tbl, columns, key, mutable,
                                             [data EXCEPT ![key] = StrV(ZeroDate)],
                                             ts, setUpdated)]
    ELSE [ok |-> FALSE, tbl |-> tbl]

\* Some value of the parameter dict could not be built (an exception while building it).
Raised(data) == \E c \in DOMAIN data : data[c] = Raise

-----------------------------------------------------------------------------
(* The shared connection (get_db_connection) *)

\* What the network does to the successive operations of one call: the connect / ping
\* attempts until one succeeds (TRUE), then the commit (which succeeds when nothing is
\* said about it).
Up == <<TRUE>>
Reconnect == <<FALSE, TRUE>>
Down == <<FALSE, FALSE, TRUE>>
CommitFails == <<TRUE, FALSE>>
Nets == {Up, Reconnect, Down, CommitFails}

\* conn.commit() returns; otherwise it raises (and a rollback after it is taken to
\* succeed).
CommitOk(net) == net # CommitFails

\* A loop that retries until an attempt succeeds.
GetDbConnectionRetrying(view, committed, net) ==
    LET n == CHOOSE i \in 1..Len(net) : net[i] /\ \A j \in 1..(i - 1) : ~net[j]
    IN [ok |-> TRUE, raised |-> FALSE, attempts |-> n,
        view |-> IF n = 1 THEN view ELSE committed]

\* get_db_connection: the first attempt is connect() or ping(reconnect=True) on the
\* global connection; when it raises, one fresh connect(); when that raises, None.
\* ok: a connection is returned; attempts: how many attempts were made; view: the rows
\* as the connection at hand sees them (a fresh connection has no open transaction, and
\* the transaction of a lost one is rolled back by the server).
get_db_connection(view, committed, net) ==
    IF net[1] THEN [ok |-> TRUE, raised |-> FALSE, attempts |-> 1, view |-> view]
    ELSE IF net[2] THEN [ok |-> TRUE, raised |-> FALSE, attempts |-> 2, view |-> committed]
    ELSE [ok |-> FALSE, raised |-> FALSE, attempts |-> 2, view |-> committed]

-----------------------------------------------------------------------------
(* Raw payloads: {"data": {"metrics": [{"data": [...]}], "workouts": [...]}} *)

\* A decoded request body: which keys it has, and the lists under them.
Payload(hasData, hasMetrics, metrics, hasWorkouts, workouts) ==
    [hasData |-> hasData, hasMetrics |-> hasMetrics, metrics |-> metrics,
     hasWorkouts |-> hasWorkouts, workouts |-> workouts]

\* One entry of data.metrics: it may lack its own "data" list.
Metric(hasData, data) == [hasData |-> hasData, data |-> data]

\* {"data": {"metrics": [{"data": samples}]}}
MetricsPayload(samples) == Payload(TRUE, TRUE, <<Metric(TRUE, samples)>>, FALSE, <<>>)

-----------------------------------------------------------------------------
(* REST server, sleep (api_server.py) *)

\* The parsed_record of receive_sleep_data for one sample.
SleepParsedRecord(record) ==
    [date |-> IF Truthy(record.date) THEN SplitFirst(Get(record.date, EmptyStr)) ELSE EmptyStr,
     bedtime |-> Get(record.inBedStart, EmptyStr),
     wake_time |-> Get(record.inBedEnd, Get(record.inBedEnd, EmptyStr)),
     sleep_duration_minutes |->
        IF Truthy(record.totalSleep) THEN PyInt(Times60(Get(record.totalSleep, IntV(0)))) ELSE EmptyStr,
     deep_sleep_minutes |->
        IF Truthy(record.deep) THEN PyInt(Times60(Get(record.deep, IntV(0)))) ELSE EmptyStr,
     light_sleep_minutes |->
        IF Truthy(record.core) THEN PyInt(Times60(Get(record.core, IntV(0)))) ELSE EmptyStr,
     rem_sleep_minutes |->
        IF Truthy(record.rem) THEN PyInt(Times60(Get(record.rem, IntV(0)))) ELSE EmptyStr,
     sleep_efficiency |-> EmptyStr,
     heart_rate_avg |-> EmptyStr,
     heart_rate_min |-> EmptyStr,
     heart_rate_max |-> EmptyStr]

RECURSIVE MetricSamples(_)
\* The samples of the metrics that have a "data" list, in order.
MetricSamples(metrics) ==
    IF metrics = <<>> THEN <<>>
    ELSE (IF Head(metrics).hasData THEN Head(metrics).data ELSE <<>>)
         \o MetricSamples(Tail(metrics))

\* The sleep_records list receive_sleep_data extracts from the request body.
SleepRecordsOf(request_data) ==
    IF request_data.hasData /\ request_data.hasMetrics
    THEN LET samples == MetricSamples(request_data.metrics)
         IN [i \in 1..Len(samples) |-> SleepParsedRecord(samples[i])]
    ELSE <<>>

\* `int(x) if x else None`
IntOrNone(v) == IF Truthy(v) THEN PyInt(Get(v, IntV(0))) ELSE None

\* `float(x) if x else None`
FloatOrNone(v) == IF Truthy(v) THEN PyFloat(Get(v, IntV(0))) ELSE None

\* The sleep_data parameter dict save_sleep_to_rds builds from one record.
SleepData(record) ==
    [date |-> Get(record.date, EmptyStr),
     bedtime |-> OrNone(record.bedtime),
     wake_time |-> OrNone(record.wake_time),
     sleep_duration_minutes |-> IntOrNone(record.sleep_duration_minutes),
     deep_sleep_minutes |-> IntOrNone(record.deep_sleep_minutes),
     light_sleep_minutes |-> IntOrNone(record.light_sleep_minutes),
     rem_sleep_minutes |-> IntOrNone(record.rem_sleep_minutes),
     sleep_efficiency |-> FloatOrNone(record.sleep_efficiency),
     heart_rate_avg |-> IntOrNone(record.heart_rate_avg),
     heart_rate_min |-> IntOrNone(record.heart_rate_min),
     heart_rate_max |-> IntOrNone(record.heart_rate_max)]

\* The INSERT INTO sleep_data ... ON DUPLICATE KEY UPDATE ..., updated_at = CURRENT_TIMESTAMP
\* statement of the REST server and of the gRPC servicer.
SleepInsertQuery(tbl, data, ts) ==
    Execute(tbl, SleepColumns, "date", SleepMutable, data, ts, TRUE)

RECURSIVE SaveSleepLoop(_, _, _, _)
\* The loop of save_sleep_to_rds: a record whose statement (or parameter dict) raises
\* is logged and skipped.
SaveSleepLoop(sleep_records, tbl, count, ts) ==
    IF sleep_records = <<>> THEN [tbl |-> tbl, count |-> count]
    ELSE LET sleep_data == SleepData(Head(sleep_records))
             res == SleepInsertQuery(tbl, sleep_data, ts)
         IN IF Raised(sleep_data) \/ ~res.ok
            THEN SaveSleepLoop(Tail(sleep_records), tbl, count, ts)
            ELSE SaveSleepLoop(Tail(sleep_records), res.tbl, count + 1, ts)

\* save_sleep_to_rds: [view, rds, count]; nothing is touched for an empty list,
\* otherwise the loop runs on the connection and conn.commit() makes it durable.
save_sleep_to_rds(view, committed, net, sleep_records, ts) ==
    IF sleep_records = <<>>
    THEN [view |-> view, rds |-> committed, count |-> 0, raised |-> FALSE]
    ELSE LET conn == get_db_connection(view, committed, net)
             out == SaveSleepLoop(sleep_records, conn.view.sleep_data, 0, ts)
             v == [conn.view EXCEPT !.sleep_data = out.tbl]
         IN IF ~conn.ok
            THEN [view |-> conn.view, rds |-> committed, count |-> 0, raised |-> FALSE]
            ELSE IF ~CommitOk(net)
            THEN [view |-> v, rds |-> committed, count |-> out.count, raised |-> TRUE]
            ELSE [view |-> v, rds |-> v, count |-> out.count, raised |-> FALSE]

\* The JSON body of a response (or the IngestResponse message), and how the call ended:
\* processed is the count the handler reports (-1: it reports none), keys the fields
\* the body carries, raised whether the handler let an exception escape.
Result(status, processed, keys, raised) ==
    [status |-> status, processed |-> processed, keys |-> keys, raised |-> raised]

RestSuccess(count) ==
    Result("success", count, {"status", "message", "database", "timestamp"}, FALSE)

\* The except branch of the REST endpoints: status error, HTTP 500.
RestError == Result("error", -1, {"status", "message"}, FALSE)

\* Some record of a list could not be built.
AnyRaised(records) == \E i \in 1..Len(records) : Raised(records[i])

\* receive_sleep_data: [view, rds, result].
receive_sleep_data(view, committed, net, request_data, ts) ==
    LET sleep_records == SleepRecordsOf(request_data)
    IN IF AnyRaised(sleep_records)
       THEN [view |-> view, rds |-> committed, result |-> RestError]
       ELSE LET saved == save_sleep_to_rds(view, committed, net, sleep_records, ts)
            IN [view |-> saved.view, rds |-> saved.rds,
                result |-> IF saved.raised THEN RestError ELSE RestSuccess(saved.count)]

-----------------------------------------------------------------------------
(* REST server, exercise (api_server.py) *)

Exercise == StrV(<<"Exercise">>)

\* The parsed_record of receive_exercise_data for one entry of data.workouts.
WorkoutParsedRecord(workout) ==
    LET start_time == Get(workout.start, EmptyStr)
        calories == IF workout.activeEnergyBurned = "obj"
                    THEN Get(workout.qty, EmptyStr) ELSE EmptyStr
        activity_type == Get(workout.workoutName, Get(workout.workoutActivityType, Exercise))
    IN [timestamp |-> start_time,
        activity_type |-> activity_type,
        duration_minutes |-> EmptyStr,
        calories_burned |-> calories,
        distance_km |-> EmptyStr,
        steps |-> EmptyStr,
        heart_rate_avg |-> EmptyStr,
        heart_rate_max |-> EmptyStr,
        active_energy_kcal |-> calories,
        resting_energy_kcal |-> EmptyStr]

\* A variant that also copies qty into calories_burned.
ExerciseMetricParsedRecordWithCalories(record) ==
    [timestamp |-> Get(record.date, EmptyStr),
     activity_type |-> Exercise,
     duration_minutes |-> Get(record.qty, EmptyStr),
     calories_burned |-> Get(record.qty, EmptyStr),
     distance_km |-> EmptyStr,
     steps |-> EmptyStr,
     heart_rate_avg |-> EmptyStr,
     heart_rate_max |-> EmptyStr,
     active_energy_kcal |-> EmptyStr,
     resting_energy_kcal |-> EmptyStr]

\* The parsed_record of receive_exercise_data for one sample of data.metrics[].data.
ExerciseMetricParsedRecord(record) ==
    [timestamp |-> Get(record.date, EmptyStr),
     activity_type |-> Exercise,
     duration_minutes |-> Get(record.qty, EmptyStr),
     calories_burned |-> EmptyStr,
     distance_km |-> EmptyStr,
     steps |-> EmptyStr,
     heart_rate_avg |-> EmptyStr,
     heart_rate_max |-> EmptyStr,
     active_energy_kcal |-> EmptyStr,
     resting_energy_kcal |-> EmptyStr]

\* The exercise_records list receive_exercise_data extracts: workouts if the key is
\* there, elif metrics.
ExerciseRecordsOf(request_data) ==
    IF ~request_data.hasData THEN <<>>
    ELSE IF request_data.hasWorkouts
    THEN [i \in 1..Len(request_data.workouts) |->
              WorkoutParsedRecord(request_data.workouts[i])]
    ELSE IF request_data.hasMetrics
    THEN LET samples == MetricSamples(request_data.metrics)
         IN [i \in 1..Len(samples) |-> ExerciseMetricParsedRecord(samples[i])]
    ELSE <<>>

\* The exercise_data parameter dict save_exercise_to_rds builds from one record.
ExerciseData(record) ==
    [timestamp |-> Get(record.timestamp, EmptyStr),
     activity_type |-> Get(record.activity_type, None),
     duration_minutes |-> IntOrNone(record.duration_minutes),
     calories_burned |-> FloatOrNone(record.calories_burned),
     distance_km |-> FloatOrNone(record.distance_km),
     steps |-> IntOrNone(record.steps),
     heart_rate_avg |-> IntOrNone(record.heart_rate_avg),
     heart_rate_max |-> IntOrNone(record.heart_rate_max),
     active_energy_kcal |-> FloatOrNone(record.active_energy_kcal),
     resting_energy_kcal |-> FloatOrNone(record.resting_energy_kcal)]

\* The INSERT INTO exercise_data ... ON DUPLICATE KEY UPDATE ... statement of the REST
\* server and of the gRPC servicer (the table has no updated_at).
ExerciseInsertQuery(tbl, data, ts) ==
    Execute(tbl, ExerciseColumns, "timestamp", ExerciseMutable, data, ts, FALSE)

RECURSIVE SaveExerciseLoop(_, _, _, _)
\* The loop of save_exercise_to_rds.
SaveExerciseLoop(exercise_records, tbl, count, ts) ==
    IF exercise_records = <<>> THEN [tbl |-> tbl, count |-> count]
    ELSE LET exercise_data == ExerciseData(Head(exercise_records))
             res == ExerciseInsertQuery(tbl, exercise_data, ts)
         IN IF Raised(exercise_data) \/ ~res.ok
            THEN SaveExerciseLoop(Tail(exercise_records), tbl, count, ts)
            ELSE SaveExerciseLoop(Tail(exercise_records), res.tbl, count + 1, ts)

\* save_exercise_to_rds: [view, rds, count, raised]; conn.commit() is outside any try.
save_exercise_to_rds(view, committed, net, exercise_records, ts) ==
    IF exercise_records = <<>>
    THEN [view |-> view, rds |-> committed, count |-> 0, raised |-> FALSE]
    ELSE LET conn == get_db_connection(view, committed, net)
             out == SaveExerciseLoop(exercise_records, conn.view.exercise_data, 0, ts)
             v == [conn.view EXCEPT !.exercise_data = out.tbl]
         IN IF ~conn.ok
            THEN [view |-> conn.view, rds |-> committed, count |-> 0, raised |-> FALSE]
            ELSE IF ~CommitOk(net)
            THEN [view |-> v, rds |-> committed, count |-> out.count, raised |-> TRUE]
            ELSE [view |-> v, rds |-> v, count |-> out.count, raised |-> FALSE]

\* receive_exercise_data: [view, rds, result].
receive_exercise_data(view, committed, net, request_data, ts) ==
    LET exercise_records == ExerciseRecordsOf(request_data)
        saved == save_exercise_to_rds(view, committed, net, exercise_records, ts)
    IN [view |-> saved.view, rds |-> saved.rds,
        result |-> IF saved.raised THEN RestError ELSE RestSuccess(saved.count)]

-----------------------------------------------------------------------------
(* REST server, glucose (api_server.py) *)

MgDl == StrV(<<"mg/dL">>)

\* The parsed_record of receive_glucose_data for one sample.
GlucoseParsedRecord(record) ==
    [timestamp |-> Get(record.date, EmptyStr),
     value |-> Get(record.qty, EmptyStr),
     unit |-> MgDl,
     source |-> Get(record.source, EmptyStr)]

\* The glucose_records list receive_glucose_data extracts.
GlucoseRecordsOf(request_data) ==
    IF request_data.hasData /\ request_data.hasMetrics
    THEN LET samples == MetricSamples(request_data.metrics)
         IN [i \in 1..Len(samples) |-> GlucoseParsedRecord(samples[i])]
    ELSE <<>>

\* The INSERT INTO blood_glucose ... ON DUPLICATE KEY UPDATE ... statement of the REST
\* server and of the gRPC servicer (the table has no updated_at).
GlucoseInsertQuery(tbl, data, ts) ==
    Execute(tbl, GlucoseColumns, "timestamp", GlucoseMutable, data, ts, FALSE)

GlucoseAcceptsNoSignCheck(record) ==
    LET timestamp == PyOr(Get(record.timestamp, EmptyStr), EmptyStr)
        value == PyOr(Get(record.value, EmptyStr), EmptyStr)
    IN /\ Truthy(timestamp)
       /\ Truthy(value)
       /\ PyFloat(value) # Raise

\* The validation of save_glucose_to_rds: a timestamp and a value are there, the value
\* converts with float() and is > 0.
GlucoseAccepts(record) ==
    LET timestamp == PyOr(Get(record.timestamp, EmptyStr), EmptyStr)
        value == PyOr(Get(record.value, EmptyStr), EmptyStr)
    IN /\ Truthy(timestamp)
       /\ Truthy(value)
       /\ PyFloat(value) # Raise
       /\ PyFloat(value).n > 0

\* The glucose_data parameter dict save_glucose_to_rds builds from an accepted record.
GlucoseData(record) ==
    [timestamp |-> PyOr(Get(record.timestamp, EmptyStr), EmptyStr),
     value |-> PyFloat(PyOr(Get(record.value, EmptyStr), EmptyStr)),
     unit |-> PyOr(Get(record.unit, MgDl), MgDl),
     source |-> OrNone(Get(record.source, None))]

RECURSIVE SaveGlucoseLoop(_, _, _, _)
\* The loop of save_glucose_to_rds.
SaveGlucoseLoop(glucose_records, tbl, count, ts) ==
    IF glucose_records = <<>> THEN [tbl |-> tbl, count |-> count]
    ELSE IF ~GlucoseAccepts(Head(glucose_records))
    THEN SaveGlucoseLoop(Tail(glucose_records), tbl, count, ts)
    ELSE LET glucose_data == GlucoseData(Head(glucose_records))
             res == GlucoseInsertQuery(tbl, glucose_data, ts)
         IN IF ~res.ok
            THEN SaveGlucoseLoop(Tail(glucose_records), tbl, count, ts)
            ELSE SaveGlucoseLoop(Tail(glucose_records), res.tbl, count + 1, ts)

\* save_glucose_to_rds: [view, rds, count]; a commit that raises is caught and rolled
\* back, and the count of the loop is returned all the same.
save_glucose_to_rds(view, committed, net, glucose_records, ts) ==
    IF glucose_records = <<>> THEN [view |-> view, rds |-> committed, count |-> 0]
    ELSE LET conn == get_db_connection(view, committed, net)
             out == SaveGlucoseLoop(glucose_records, conn.view.blood_glucose, 0, ts)
             v == [conn.view EXCEPT !.blood_glucose = out.tbl]
         IN IF ~conn.ok THEN [view |-> conn.view, rds |-> committed, count |-> 0]
            ELSE IF ~CommitOk(net)
            THEN [view |-> committed, rds |-> committed, count |-> out.count]
            ELSE [view |-> v, rds |-> v, count |-> out.count]

\* receive_glucose_data: [view, rds, result]; a warning body when nothing was saved.
receive_glucose_data(view, committed, net, request_data, ts) ==
    LET glucose_records == GlucoseRecordsOf(request_data)
        saved == save_glucose_to_rds(view, committed, net, glucose_records, ts)
    IN [view |-> saved.view, rds |-> saved.rds,
        result |-> IF saved.count > 0 THEN RestSuccess(saved.count)
                   ELSE Result("warning", saved.count, {"status", "message", "total_extracted"}, FALSE)]

-----------------------------------------------------------------------------
(* REST to gRPC gateway (grpc/gateway.py): builds protobuf records *)

\* A value given to a string field of a protobuf constructor: None leaves the field at
\* its default '', anything but a string is a TypeError.
ProtoStr(v) == CASE v.t = "str" -> v [] v.t = "none" -> EmptyStr [] OTHER -> Raise

\* pb2.SleepRecord(...) of ingest_sleep for one sample; unset fields hold 0.
GatewaySleepRecord(r) ==
    [date |-> IF Truthy(r.date) THEN SplitFirst(Get(r.date, EmptyStr)) ELSE EmptyStr,
     bedtime |-> ProtoStr(Get(r.inBedStart, EmptyStr)),
     wake_time |-> ProtoStr(Get(r.inBedEnd, EmptyStr)),
     sleep_duration_minutes |-> PyInt(Times60(Get(r.totalSleep, IntV(0)))),
     deep_sleep_minutes |-> PyInt(Times60(Get(r.deep, IntV(0)))),
     light_sleep_minutes |-> PyInt(Times60(Get(r.core, IntV(0)))),
     rem_sleep_minutes |-> PyInt(Times60(Get(r.rem, IntV(0)))),
     sleep_efficiency |-> FloatV(0),
     heart_rate_avg |-> IntV(0),
     heart_rate_min |-> IntV(0),
     heart_rate_max |-> IntV(0)]

RECURSIVE MetricSamplesOrEmpty(_)
\* The samples of `for r in metric.get("data", [])`, over all metrics in order.
MetricSamplesOrEmpty(metrics) ==
    IF metrics = <<>> THEN <<>>
    ELSE (IF Head(metrics).hasData THEN Head(metrics).data ELSE <<>>)
         \o MetricSamplesOrEmpty(Tail(metrics))

\* The sleep_records list of ingest_sleep.
GatewaySleepRecords(data) ==
    IF data.hasData /\ data.hasMetrics
    THEN LET samples == MetricSamplesOrEmpty(data.metrics)
         IN [i \in 1..Len(samples) |-> GatewaySleepRecord(samples[i])]
    ELSE <<>>

\* pb2.ExerciseRecord(...) of ingest_exercise for one entry of data.workouts.
GatewayWorkoutRecord(w) ==
    [timestamp |-> ProtoStr(Get(w.start, EmptyStr)),
     activity_type |-> ProtoStr(Get(w.workoutName, Exercise)),
     duration_minutes |-> IntV(0),
     calories_burned |->
        IF w.activeEnergyBurned = "obj"
        THEN (IF w.qty = Absent THEN Raise ELSE PyFloat(w.qty))
        ELSE FloatV(0),
     distance_km |-> FloatV(0),
     steps |-> IntV(0),
     heart_rate_avg |-> IntV(0),
     heart_rate_max |-> IntV(0),
     active_energy_kcal |-> FloatV(0),
     resting_energy_kcal |-> FloatV(0)]

\* pb2.ExerciseRecord(...) of ingest_exercise for one sample of data.metrics[].data.
GatewayExerciseMetricRecord(r) ==
    [timestamp |-> ProtoStr(Get(r.date, EmptyStr)),
     activity_type |-> Exercise,
     duration_minutes |-> PyInt(Get(r.qty, IntV(0))),
     calories_burned |-> FloatV(0),
     distance_km |-> FloatV(0),
     steps |-> IntV(0),
     heart_rate_avg |-> IntV(0),
     heart_rate_max |-> IntV(0),
     active_energy_kcal |-> FloatV(0),
     resting_energy_kcal |-> FloatV(0)]

\* The exercise_records list of ingest_exercise: the workouts if the key is there, and
\* then also the metrics samples if that key is there (two `if`s, no `elif`).
GatewayExerciseRecords(body) ==
    IF ~body.hasData THEN <<>>
    ELSE (IF body.hasWorkouts
          THEN [i \in 1..Len(body.workouts) |-> GatewayWorkoutRecord(body.workouts[i])]
          ELSE <<>>)
         \o (IF body.hasMetrics
             THEN LET samples == MetricSamplesOrEmpty(body.metrics)
                  IN [i \in 1..Len(samples) |-> GatewayExerciseMetricRecord(samples[i])]
             ELSE <<>>)

\* pb2.GlucoseRecord(...) of ingest_glucose for one sample.
GatewayGlucoseRecord(r) ==
    [timestamp |-> ProtoStr(Get(r.date, EmptyStr)),
     value |-> PyFloat(Get(r.qty, IntV(0))),
     unit |-> MgDl,
     source |-> ProtoStr(Get(r.source, EmptyStr))]

RECURSIVE KeepBuilt(_)
\* try: rec = ...; append(rec) / except: continue
KeepBuilt(records) ==
    IF records = <<>> THEN <<>>
    ELSE (IF Raised(Head(records)) THEN <<>> ELSE <<Head(records)>>) \o KeepBuilt(Tail(records))

\* The glucose_records list of ingest_glucose: a sample whose record cannot be built is
\* skipped.
GatewayGlucoseRecords(body) ==
    IF body.hasData /\ body.hasMetrics
    THEN LET samples == MetricSamplesOrEmpty(body.metrics)
         IN KeepBuilt([i \in 1..Len(samples) |-> GatewayGlucoseRecord(samples[i])])
    ELSE <<>>

-----------------------------------------------------------------------------
(* gRPC servicer (grpc/grpc_server.py) *)

\* The parameter dict ExportSleep builds from one SleepRecord message.
ExportSleepData(r) ==
    [date |-> r.date,
     bedtime |-> OrNone(r.bedtime),
     wake_time |-> OrNone(r.wake_time),
     sleep_duration_minutes |-> OrNone(r.sleep_duration_minutes),
     deep_sleep_minutes |-> OrNone(r.deep_sleep_minutes),
     light_sleep_minutes |-> OrNone(r.light_sleep_minutes),
     rem_sleep_minutes |-> OrNone(r.rem_sleep_minutes),
     sleep_efficiency |-> OrNone(r.sleep_efficiency),
     heart_rate_avg |-> OrNone(r.heart_rate_avg),
     heart_rate_min |-> OrNone(r.heart_rate_min),
     heart_rate_max |-> OrNone(r.heart_rate_max)]

RECURSIVE ExportSleepLoop(_, _, _, _)
\* The loop of ExportSleep: no try around cursor.execute, a failing statement ends the
\* call with the rows written so far left in the open transaction.
ExportSleepLoop(records, tbl, processed, ts) ==
    IF records = <<>> THEN [tbl |-> tbl, processed |-> processed, raised |-> FALSE]
    ELSE LET res == SleepInsertQuery(tbl, ExportSleepData(Head(records)), ts)
         IN IF ~res.ok THEN [tbl |-> tbl, processed |-> processed, raised |-> TRUE]
            ELSE ExportSleepLoop(Tail(records), res.tbl, processed + 1, ts)

\* The IngestResponse of a call that reached its return statement.
GrpcSuccess(processed) ==
    Result("success", processed, {"status", "message", "processed", "timestamp"}, FALSE)

\* `if not conn`: IngestResponse(status="error", processed=0) with the fields the
\* method sets.
GrpcUnavailable(keys) == Result("error", 0, keys, FALSE)

\* The call ended by an exception: the client gets an RpcError, no IngestResponse.
GrpcRaised == Result("unhandled", -1, {}, TRUE)

\* ExportSleep: [view, rds, result]; conn.commit() makes durable all that the shared
\* connection's transaction holds.
ExportSleep(view, committed, net, records, ts) ==
    LET conn == get_db_connection(view, committed, net)
        out == ExportSleepLoop(records, conn.view.sleep_data, 0, ts)
        v == [conn.view EXCEPT !.sleep_data = out.tbl]
    IN IF ~conn.ok
       THEN [view |-> conn.view, rds |-> committed, result |-> GrpcUnavailable({"status", "message", "processed", "timestamp"})]
       ELSE IF out.raised \/ ~CommitOk(net)
       THEN [view |-> v, rds |-> committed, result |-> GrpcRaised]
       ELSE [view |-> v, rds |-> v, result |-> GrpcSuccess(out.processed)]

\* The parameter dict ExportExercise builds from one ExerciseRecord message.
ExportExerciseData(r) ==
    [timestamp |-> r.timestamp,
     activity_type |-> r.activity_type,
     duration_minutes |-> OrNone(r.duration_minutes),
     calories_burned |-> OrNone(r.calories_burned),
     distance_km |-> OrNone(r.distance_km),
     steps |-> OrNone(r.steps),
     heart_rate_avg |-> OrNone(r.heart_rate_avg),
     heart_rate_max |-> OrNone(r.heart_rate_max),
     active_energy_kcal |-> OrNone(r.active_energy_kcal),
     resting_energy_kcal |-> OrNone(r.resting_energy_kcal)]

RECURSIVE ExportExerciseLoop(_, _, _, _)
\* The loop of ExportExercise.
ExportExerciseLoop(records, tbl, processed, ts) ==
    IF records = <<>> THEN [tbl |-> tbl, processed |-> processed, raised |-> FALSE]
    ELSE LET res == ExerciseInsertQuery(tbl, ExportExerciseData(Head(records)), ts)
         IN IF ~res.ok THEN [tbl |-> tbl, processed |-> processed, raised |-> TRUE]
            ELSE ExportExerciseLoop(Tail(records), res.tbl, processed + 1, ts)

\* ExportExercise: [view, rds, result].
ExportExercise(view, committed, net, records, ts) ==
    LET conn == get_db_connection(view, committed, net)
        out == ExportExerciseLoop(records, conn.view.exercise_data, 0, ts)
        v == [conn.view EXCEPT !.exercise_data = out.tbl]
    IN IF ~conn.ok
       THEN [view |-> conn.view, rds |-> committed, result |-> GrpcUnavailable({"status", "message", "processed"})]
       ELSE IF out.raised \/ ~CommitOk(net)
       THEN [view |-> v, rds |-> committed, result |-> GrpcRaised]
       ELSE [view |-> v, rds |-> v, result |-> GrpcSuccess(out.processed)]

\* The parameter dict ExportGlucose builds from one GlucoseRecord message.
ExportGlucoseData(r) ==
    [timestamp |-> r.timestamp,
     value |-> r.value,
     unit |-> PyOr(r.unit, MgDl),
     source |-> OrNone(r.source)]

RECURSIVE ExportGlucoseLoop(_, _, _, _)
\* The loop of ExportGlucose: a record with value <= 0 is skipped.
ExportGlucoseLoop(records, tbl, processed, ts) ==
    IF records = <<>> THEN [tbl |-> tbl, processed |-> processed, raised |-> FALSE]
    ELSE IF Head(records).value.n <= 0
    THEN ExportGlucoseLoop(Tail(records), tbl, processed, ts)
    ELSE LET res == GlucoseInsertQuery(tbl, ExportGlucoseData(Head(records)), ts)
         IN IF ~res.ok THEN [tbl |-> tbl, processed |-> processed, raised |-> TRUE]
            ELSE ExportGlucoseLoop(Tail(records), res.tbl, processed + 1, ts)

\* ExportGlucose: [view, rds, result].
ExportGlucose(view, committed, net, records, ts) ==
    LET conn == get_db_connection(view, committed, net)
        out == ExportGlucoseLoop(records, conn.view.blood_glucose, 0, ts)
        v == [conn.view EXCEPT !.blood_glucose = out.tbl]
    IN IF ~conn.ok
       THEN [view |-> conn.view, rds |-> committed, result |-> GrpcUnavailable({"status", "message", "processed"})]
       ELSE IF out.raised \/ ~CommitOk(net)
       THEN [view |-> v, rds |-> committed, result |-> GrpcRaised]
       ELSE [view |-> v, rds |-> v, result |-> GrpcSuccess(out.processed)]

\* What the gateway answers: the fields of the IngestResponse, or an unhandled
\* exception (HTTP 500) when a record could not be built or the RPC failed.
GatewayUnhandled(view, committed) ==
    [view |-> view, rds |-> committed, result |-> Result("unhandled", -1, {}, TRUE)]

\* ingest_sleep: [view, rds, result].
ingest_sleep(view, committed, net, data, ts) ==
    LET sleep_records == GatewaySleepRecords(data)
    IN IF AnyRaised(sleep_records) THEN GatewayUnhandled(view, committed)
       ELSE ExportSleep(view, committed, net, sleep_records, ts)

\* ingest_exercise: [view, rds, result].
ingest_exercise(view, committed, net, body, ts) ==
    LET exercise_records == GatewayExerciseRecords(body)
    IN IF AnyRaised(exercise_records) THEN GatewayUnhandled(view, committed)
       ELSE ExportExercise(view, committed, net, exercise_records, ts)

\* ingest_glucose: [view, rds, result].
ingest_glucose(view, committed, net, body, ts) ==
    ExportGlucose(view, committed, net, GatewayGlucoseRecords(body), ts)

-----------------------------------------------------------------------------
(* GraphQL resolver (graphql/graphql_server.py) *)

\* The values tuple resolve_ingest_sleep builds from one input record: r["date"] is a
\* KeyError when the key is missing, r.get(...) is None.
GraphqlSleepValues(r) ==
    [date |-> IF r.date = Absent THEN Raise ELSE r.date,
     bedtime |-> Get(r.bedtime, None),
     wake_time |-> Get(r.wake_time, None),
     sleep_duration_minutes |-> Get(r.sleep_duration_minutes, None),
     deep_sleep_minutes |-> Get(r.deep_sleep_minutes, None),
     light_sleep_minutes |-> Get(r.light_sleep_minutes, None),
     rem_sleep_minutes |-> Get(r.rem_sleep_minutes, None),
     sleep_efficiency |-> Get(r.sleep_efficiency, None),
     heart_rate_avg |-> Get(r.heart_rate_avg, None),
     heart_rate_min |-> Get(r.heart_rate_min, None),
     heart_rate_max |-> Get(r.heart_rate_max, None)]

\* get_db() is not part of the sources; the resolver is taken to work on the process's
\* connection, as the handlers of the other servers do with get_db_connection().

\* query_sql: the same upsert without `updated_at = CURRENT_TIMESTAMP`.
GraphqlQuerySql(tbl, values, ts) ==
    Execute(tbl, SleepColumns, "date", SleepMutable, values, ts, FALSE)

RECURSIVE GraphqlSleepLoop(_, _, _, _)
\* The loop of resolve_ingest_sleep: no try around the statement.
GraphqlSleepLoop(records, tbl, count, ts) ==
    IF records = <<>> THEN [tbl |-> tbl, count |-> count, raised |-> FALSE]
    ELSE LET values == GraphqlSleepValues(Head(records))
             res == GraphqlQuerySql(tbl, values, ts)
         IN IF Raised(values) \/ ~res.ok
            THEN [tbl |-> tbl, count |-> count, raised |-> TRUE]
            ELSE GraphqlSleepLoop(Tail(records), res.tbl, count + 1, ts)

\* resolve_ingest_sleep: [view, rds, result].
resolve_ingest_sleep(view, committed, records, ts) ==
    LET out == GraphqlSleepLoop(records, view.sleep_data, 0, ts)
        v == [view EXCEPT !.sleep_data = out.tbl]
    IN IF out.raised
       THEN [view |-> v, rds |-> committed, result |-> Result("unhandled", -1, {}, TRUE)]
       ELSE [view |-> v, rds |-> v,
             result |-> Result("success", out.count,
                               {"status", "message", "processed", "timestamp"}, FALSE)]

-----------------------------------------------------------------------------
(* The inputs the calls are drawn from *)

Date1 == <<"D1">>
Date2 == <<"D2">>
Stamp1 == <<"D1", " ", "T0">>
Stamp2 == <<"D2", " ", "T0">>
Stamp3 == <<"D2", " ", "T1">>

SleepSample(date, inBedStart, inBedEnd, totalSleep, deep, core, rem) ==
    [date |-> date, inBedStart |-> inBedStart, inBedEnd |-> inBedEnd,
     totalSleep |-> totalSleep, deep |-> deep, core |-> core, rem |-> rem]

\* {"date": "2024-01-15 00:00:00", "inBedStart": ..., "inBedEnd": ..., "totalSleep": 7.5, "deep": 1.5}
SScenario ==
    SleepSample(StrV(Stamp1), StrV(<<"B1">>), StrV(<<"W1">>), FloatV(750), FloatV(150), Absent, Absent)
\* the same day, date without a time part, totalSleep 1.51 h, deep 0 h, no bed times
SSparse == SleepSample(StrV(Date1), Absent, Absent, FloatV(151), FloatV(0), Absent, Absent)
\* another day, with a zone after the time, totalSleep 8 (an int), core 4.0 h, rem 0.01 h
SOther ==
    SleepSample(StrV(<<"D2", " ", "T0", " ", "Z0">>), StrV(<<"B2">>), Absent, IntV(8), Absent, FloatV(400), FloatV(1))
\* no date
SNoDate == SleepSample(EmptyStr, Absent, Absent, FloatV(750), Absent, Absent, Absent)
\* "date": 20240115 (a number, not a string)
SNumericDate == SleepSample(IntV(20240115), Absent, Absent, FloatV(750), Absent, Absent, Absent)
\* "deep": "x" (a string that is no number)
SUnparseable == SleepSample(StrV(Date2), Absent, Absent, FloatV(600), StrV(<<"x">>), Absent, Absent)
\* "rem": null
SNull == SleepSample(StrV(Date2), StrV(<<>>), None, FloatV(600), Absent, Absent, None)

NoDataPayload == Payload(FALSE, FALSE, <<>>, FALSE, <<>>)
NoMetricsPayload == Payload(TRUE, FALSE, <<>>, FALSE, <<>>)

SleepPayloads ==
    [scenario |-> MetricsPayload(<<SScenario>>),
     sparse |-> MetricsPayload(<<SSparse>>),
     same_key |-> MetricsPayload(<<SScenario, SSparse>>),
     bad_first |-> MetricsPayload(<<SNoDate, SScenario, SOther>>),
     bad_middle |-> MetricsPayload(<<SScenario, SNoDate, SOther>>),
     bad_last |-> MetricsPayload(<<SScenario, SOther, SNoDate>>),
     null_field |-> MetricsPayload(<<SNull>>),
     numeric_date |-> MetricsPayload(<<SScenario, SNumericDate>>),
     unparseable |-> MetricsPayload(<<SScenario, SUnparseable>>),
     no_data |-> NoDataPayload,
     no_metric_data |->
        Payload(TRUE, TRUE, <<Metric(FALSE, <<>>), Metric(TRUE, <<SOther>>)>>, FALSE, <<>>)]

Workout(start, activeEnergyBurned, qty, workoutName, workoutActivityType) ==
    [start |-> start, activeEnergyBurned |-> activeEnergyBurned, qty |-> qty,
     workoutName |-> workoutName, workoutActivityType |-> workoutActivityType]

WRun == Workout(StrV(Stamp1), "obj", FloatV(25050), StrV(<<"Run">>), Absent)
WPlain == Workout(StrV(Stamp1), "absent", Absent, Absent, StrV(<<"Walk">>))
WOther == Workout(StrV(Stamp2), "obj", IntV(100), Absent, Absent)

ExerciseSample(date, qty) == [date |-> date, qty |-> qty]

EMSame == ExerciseSample(StrV(Stamp1), IntV(30))
EMOther == ExerciseSample(StrV(Stamp3), FloatV(4550))
EMNoDate == ExerciseSample(EmptyStr, IntV(20))
EMZero == ExerciseSample(StrV(Stamp2), IntV(0))
\* "qty": 0.5 (half a minute)
EMHalf == ExerciseSample(StrV(Stamp3), FloatV(50))
\* "qty": "x" (a string that is no number)
EMUnparseable == ExerciseSample(StrV(Stamp2), StrV(<<"x">>))

ExercisePayloads ==
    [workouts |-> Payload(TRUE, FALSE, <<>>, TRUE, <<WRun, WOther>>),
     workout_sparse |-> Payload(TRUE, FALSE, <<>>, TRUE, <<WPlain>>),
     same_key |-> Payload(TRUE, FALSE, <<>>, TRUE, <<WRun, WPlain>>),
     metrics |-> MetricsPayload(<<EMSame, EMZero>>),
     unparseable |-> MetricsPayload(<<EMSame, EMUnparseable>>),
     fraction |-> MetricsPayload(<<EMHalf>>),
     both |-> Payload(TRUE, TRUE, <<Metric(TRUE, <<EMSame, EMOther>>)>>, TRUE, <<WRun>>),
     bad_first |-> MetricsPayload(<<EMNoDate, EMSame, EMOther>>),
     bad_middle |-> MetricsPayload(<<EMSame, EMNoDate, EMOther>>),
     bad_last |-> MetricsPayload(<<EMSame, EMOther, EMNoDate>>),
     no_metrics |-> NoMetricsPayload]

GlucoseSample(date, qty, source) == [date |-> date, qty |-> qty, source |-> source]

G110 == GlucoseSample(StrV(Stamp1), IntV(110), StrV(<<"S1">>))
G120 == GlucoseSample(StrV(Stamp1), FloatV(12050), Absent)
GZero == GlucoseSample(StrV(Stamp2), IntV(0), StrV(<<"S1">>))
GNegative == GlucoseSample(StrV(Stamp2), IntV(-5), StrV(<<"S1">>))
GUnparseable == GlucoseSample(StrV(Stamp2), StrV(<<"x">>), StrV(<<"S1">>))
GNumericString == GlucoseSample(StrV(Stamp3), StrV(<<"9", "5">>), Absent)
GNoDate == GlucoseSample(EmptyStr, IntV(130), StrV(<<"S1">>))

GlucosePayloads ==
    [scenario |-> MetricsPayload(<<GZero, G110>>),
     overwrite |-> MetricsPayload(<<G120>>),
     invalid |-> MetricsPayload(<<GNegative, GUnparseable>>),
     bad_first |-> MetricsPayload(<<GNoDate, G110, GNumericString>>),
     bad_middle |-> MetricsPayload(<<G110, GNoDate, GNumericString>>),
     bad_last |-> MetricsPayload(<<G110, GNumericString, GNoDate>>),
     no_data |-> NoDataPayload]

SleepRecord(date, bedtime, wake_time, total, deep, light, rem, efficiency, avg, min, max) ==
    [date |-> date, bedtime |-> bedtime, wake_time |-> wake_time,
     sleep_duration_minutes |-> total, deep_sleep_minutes |-> deep,
     light_sleep_minutes |-> light, rem_sleep_minutes |-> rem,
     sleep_efficiency |-> efficiency, heart_rate_avg |-> avg,
     heart_rate_min |-> min, heart_rate_max |-> max]

\* SleepRecord messages a gRPC client sends directly (every field set).
PSleepFull ==
    SleepRecord(StrV(Date1), StrV(<<"B1">>), StrV(<<"W1">>), IntV(420), IntV(60), IntV(200),
                IntV(90), FloatV(9150), IntV(55), IntV(48), IntV(70))

PSleepOther ==
    SleepRecord(StrV(Date2), EmptyStr, EmptyStr, IntV(480), IntV(0), IntV(0), IntV(0),
                FloatV(0), IntV(0), IntV(0), IntV(0))
PSleepNoDate ==
    SleepRecord(EmptyStr, EmptyStr, EmptyStr, IntV(450), IntV(0), IntV(0), IntV(0),
                FloatV(0), IntV(0), IntV(0), IntV(0))

ExportSleepBatches ==
    [full |-> <<PSleepFull>>,
     bad_middle |-> <<PSleepFull, PSleepNoDate, PSleepOther>>,
     empty |-> <<>>]

PExerciseFull ==
    [timestamp |-> StrV(Stamp1), activity_type |-> StrV(<<"Ride">>),
     duration_minutes |-> IntV(40), calories_burned |-> FloatV(30000),
     distance_km |-> FloatV(1250), steps |-> IntV(0), heart_rate_avg |-> IntV(120),
     heart_rate_max |-> IntV(150), active_energy_kcal |-> FloatV(28000),
     resting_energy_kcal |-> FloatV(2000)]

PExerciseBare ==
    [timestamp |-> StrV(Stamp1), activity_type |-> StrV(<<"Walk">>),
     duration_minutes |-> IntV(15), calories_burned |-> FloatV(0),
     distance_km |-> FloatV(0), steps |-> IntV(0), heart_rate_avg |-> IntV(0),
     heart_rate_max |-> IntV(0), active_energy_kcal |-> FloatV(0),
     resting_energy_kcal |-> FloatV(0)]

ExportExerciseBatches ==
    [full |-> <<PExerciseFull>>,
     same_key |-> <<PExerciseFull, PExerciseBare>>,
     empty |-> <<>>]

PGlucoseBare ==
    [timestamp |-> StrV(Stamp3), value |-> FloatV(9900), unit |-> EmptyStr, source |-> EmptyStr]

PGlucoseZero ==
    [timestamp |-> StrV(Stamp2), value |-> FloatV(0), unit |-> MgDl, source |-> EmptyStr]
PGlucoseNegative ==
    [timestamp |-> StrV(Stamp2), value |-> FloatV(-500), unit |-> MgDl, source |-> EmptyStr]
PGlucoseNoStamp ==
    [timestamp |-> EmptyStr, value |-> FloatV(13000), unit |-> MgDl, source |-> EmptyStr]

ExportGlucoseBatches ==
    [bare |-> <<PGlucoseBare>>,
     invalid |-> <<PGlucoseZero, PGlucoseBare, PGlucoseNegative>>,
     no_timestamp |-> <<PGlucoseBare, PGlucoseNoStamp>>,
     empty |-> <<>>]

\* SleepRecordInput objects of the ingestSleep mutation.
QScenario ==
    SleepRecord(StrV(Date1), StrV(<<"B1">>), StrV(<<"W1">>), IntV(450), IntV(90), Absent,
                Absent, Absent, Absent, Absent, Absent)
QSparse ==
    SleepRecord(StrV(Date1), Absent, Absent, IntV(90), Absent, Absent, Absent, Absent,
                Absent, Absent, Absent)
QOther ==
    SleepRecord(StrV(Date2), StrV(<<"B2">>), None, IntV(480), Absent, IntV(240), IntV(0),
                FloatV(9000), IntV(55), IntV(48), IntV(70))
QNoDate ==
    SleepRecord(EmptyStr, Absent, Absent, IntV(450), Absent, Absent, Absent, Absent,
                Absent, Absent, Absent)

GraphqlSleepBatches ==
    [scenario |-> <<QScenario>>,
     sparse |-> <<QSparse>>,
     same_key |-> <<QScenario, QSparse>>,
     bad_first |-> <<QNoDate, QScenario, QOther>>,
     bad_middle |-> <<QScenario, QNoDate, QOther>>,
     bad_last |-> <<QScenario, QOther, QNoDate>>,
     empty |-> <<>>]

-----------------------------------------------------------------------------
(* The state machine *)

Deployments == {"rest", "grpc", "graphql"}

\* Handler `op` run on its input named `input`: [view, rds, result].
Handle(op, input, net, view, committed, ts) ==
    CASE op = "receive_sleep_data" -> receive_sleep_data(view, committed, net, SleepPayloads[input], ts)
      [] op = "receive_exercise_data" ->
            receive_exercise_data(view, committed, net, ExercisePayloads[input], ts)
      [] op = "receive_glucose_data" ->
            receive_glucose_data(view, committed, net, GlucosePayloads[input], ts)
      [] op = "ingest_sleep" -> ingest_sleep(view, committed, net, SleepPayloads[input], ts)
      [] op = "ingest_exercise" -> ingest_exercise(view, committed, net, ExercisePayloads[input], ts)
      [] op = "ingest_glucose" -> ingest_glucose(view, committed, net, GlucosePayloads[input], ts)
      [] op = "ExportSleep" -> ExportSleep(view, committed, net, ExportSleepBatches[input], ts)
      [] op = "ExportExercise" ->
            ExportExercise(view, committed, net, ExportExerciseBatches[input], ts)
      [] op = "ExportGlucose" -> ExportGlucose(view, committed, net, ExportGlucoseBatches[input], ts)
      [] op = "resolve_ingest_sleep" ->
            resolve_ingest_sleep(view, committed, GraphqlSleepBatches[input], ts)

\* A database that already holds rows: what the REST server stored at time 0 from the
\* scenario payloads of the three kinds.
SeedTables ==
    LET a == receive_sleep_data(EmptyTables, EmptyTables, Up, SleepPayloads.scenario, 0).rds
        b == receive_exercise_data(a, a, Up, ExercisePayloads.workouts, 0).rds
    IN receive_glucose_data(b, b, Up, GlucosePayloads.scenario, 0).rds

NoCall ==
    [op |-> "none", input |-> "none", net |-> Up, repeat |-> FALSE,
     result |-> Result("none", -1, {}, FALSE)]

\* Two of the worker threads of the gRPC server's pool (max_workers=10).
Threads == {"t1", "t2"}

\* The process starts (create_tables: CREATE TABLE IF NOT EXISTS) on an empty database
\* or on one that holds rows from an earlier run; no transaction is open.
Init ==
    /\ deployment \in Deployments
    /\ sql_mode \in SqlModes
    /\ rds \in {EmptyTables, SeedTables}
    /\ db_connection = rds
    /\ now = 0
    /\ last = NoCall
    /\ prev = [view |-> rds, rds |-> rds]
    /\ pool = [t \in Threads |-> [pc |-> "idle", method |-> "none", batch |-> "none",
                                   idx |-> 0, processed |-> 0, commits |-> 0]]

\* A call of handler `op` on input `input` at the next clock value, with outcome `out`;
\* last.repeat tells that the call before it was the same handler on the same input
\* and was committed.
Call(op, input, net, out) ==
    /\ db_connection' = out.view
    /\ rds' = out.rds
    /\ now' = now + 1
    /\ last' = [op |-> op, input |-> input, net |-> net,
                repeat |-> (last.op = op /\ last.input = input /\ last.net \in {Up, Reconnect}),
                result |-> out.result]
    /\ prev' = [view |-> db_connection, rds |-> rds]
    /\ UNCHANGED <<deployment, sql_mode, pool>>

\* POST /api/sleep of the REST server.
RestSleep ==
    /\ deployment = "rest" /\ now < MaxClock
    /\ \E p \in DOMAIN SleepPayloads :
         \E net \in Nets :
            Call("receive_sleep_data", p, net,
                 receive_sleep_data(db_connection, rds, net, SleepPayloads[p], now + 1))

\* POST /api/exercise of the REST server.
RestExercise ==
    /\ deployment = "rest" /\ now < MaxClock
    /\ \E p \in DOMAIN ExercisePayloads :
         \E net \in Nets :
            Call("receive_exercise_data", p, net,
                 receive_exercise_data(db_connection, rds, net, ExercisePayloads[p], now + 1))

\* POST /api/glucose of the REST server.
RestGlucose ==
    /\ deployment = "rest" /\ now < MaxClock
    /\ \E p \in DOMAIN GlucosePayloads :
         \E net \in Nets :
            Call("receive_glucose_data", p, net,
                 receive_glucose_data(db_connection, rds, net, GlucosePayloads[p], now + 1))

\* POST /api/sleep of the gateway, served by ExportSleep.
GatewaySleep ==
    /\ deployment = "grpc" /\ now < MaxClock
    /\ \E p \in DOMAIN SleepPayloads :
         \E net \in Nets :
            Call("ingest_sleep", p, net,
                 ingest_sleep(db_connection, rds, net, SleepPayloads[p], now + 1))

\* POST /api/exercise of the gateway, served by ExportExercise.
GatewayExercise ==
    /\ deployment = "grpc" /\ now < MaxClock
    /\ \E p \in DOMAIN ExercisePayloads :
         \E net \in Nets :
            Call("ingest_exercise", p, net,
                 ingest_exercise(db_connection, rds, net, ExercisePayloads[p], now + 1))

\* POST /api/glucose of the gateway, served by ExportGlucose.
GatewayGlucose ==
    /\ deployment = "grpc" /\ now < MaxClock
    /\ \E p \in DOMAIN GlucosePayloads :
         \E net \in Nets :
            Call("ingest_glucose", p, net,
                 ingest_glucose(db_connection, rds, net, GlucosePayloads[p], now + 1))

\* ExportSleep called by a gRPC client.
GrpcSleep ==
    /\ deployment = "grpc" /\ now < MaxClock
    /\ \E b \in DOMAIN ExportSleepBatches :
         \E net \in Nets :
            Call("ExportSleep", b, net,
                 ExportSleep(db_connection, rds, net, ExportSleepBatches[b], now + 1))

\* ExportExercise called by a gRPC client.
GrpcExercise ==
    /\ deployment = "grpc" /\ now < MaxClock
    /\ \E b \in DOMAIN ExportExerciseBatches :
         \E net \in Nets :
            Call("ExportExercise", b, net,
                 ExportExercise(db_connection, rds, net, ExportExerciseBatches[b], now + 1))

\* ExportGlucose called by a gRPC client.
GrpcGlucose ==
    /\ deployment = "grpc" /\ now < MaxClock
    /\ \E b \in DOMAIN ExportGlucoseBatches :
         \E net \in Nets :
            Call("ExportGlucose", b, net,
                 ExportGlucose(db_connection, rds, net, ExportGlucoseBatches[b], now + 1))

\* The ingestSleep mutation.
GraphqlSleep ==
    /\ deployment = "graphql" /\ now < MaxClock
    /\ \E b \in DOMAIN GraphqlSleepBatches :
         Call("resolve_ingest_sleep", b, Up,
              resolve_ingest_sleep(db_connection, rds, GraphqlSleepBatches[b], now + 1))

Next ==
    \/ RestSleep \/ RestExercise \/ RestGlucose
    \/ GatewaySleep \/ GatewayExercise \/ GatewayGlucose
    \/ GrpcSleep \/ GrpcExercise \/ GrpcGlucose
    \/ GraphqlSleep

Spec == Init /\ [][Next]_vars

-----------------------------------------------------------------------------
(* Properties *)

Tables == {"sleep_data", "exercise_data", "blood_glucose"}

KeyColumn(t) == IF t = "sleep_data" THEN "date" ELSE "timestamp"

MutableColumns(t) ==
    CASE t = "sleep_data" -> SleepMutable
      [] t = "exercise_data" -> ExerciseMutable
      [] t = "blood_glucose" -> GlucoseMutable

Keys(store, t) == {r[KeyColumn(t)] : r \in store[t]}

\* The row of table t of a store under key k (there is one).
RowAt(store, t, k) == CHOOSE r \in store[t] : r[KeyColumn(t)] = k

\* A row without its surrogate id and audit columns.
Content(t, r) == [c \in {KeyColumn(t)} \cup MutableColumns(t) |-> r[c]]

\* The keys and field values of a store, audit timestamps aside.
Contents(store) == [t \in Tables |-> {Content(t, r) : r \in store[t]}]

Called == last.op # "none"

\* The call returned normally (no exception left the handler).
Returned == Called /\ ~last.result.raised

\* What the last call writes when it runs on an empty database.
OnEmpty == Handle(last.op, last.input, last.net, EmptyTables, EmptyTables, now)

\* C1: in every reachable state the committed store and the connection's view of it
\* hold at most one sleep row per date, one exercise row per timestamp and one glucose
\* row per timestamp.
C1_OneRowPerKey ==
    \A store \in {rds, db_connection} : \A t \in Tables :
        \A r1, r2 \in store[t] : r1[KeyColumn(t)] = r2[KeyColumn(t)] => r1 = r2

\* The three tables hold rows and the last call upserted a key that was already stored.
C1_Witness ==
    /\ Returned
    /\ \A t \in Tables : rds[t] # {}
    /\ \E t \in Tables : \E k \in Keys(prev.rds, t) :
          k \in Keys(OnEmpty.view, t) /\ RowAt(rds, t, k) # RowAt(prev.rds, t, k)

\* C2: a call that repeats the call before it (same handler, same batch) leaves the keys
\* and the field values of the store as the first one left them, audit timestamps aside
\* (and those of the connection's open transaction, when the connection is the same).
C2_Idempotent ==
    last.repeat =>
        /\ Contents(rds) = Contents(prev.rds)
        /\ last.net = Up => Contents(db_connection) = Contents(prev.view)

\* A batch that stored rows was ingested twice in a row.
C2_Witness ==
    /\ last.repeat
    /\ last.result.processed >= 2
    /\ rds # prev.rds

\* C3: after a call, every key the call upserts holds exactly the mutable values the
\* call gives it, whatever the row held before: the values are those the same call
\* leaves on an empty database, null where the record has no value.
C3_LastWriteWins ==
    Called =>
        \A t \in Tables : \A k \in Keys(OnEmpty.view, t) :
            /\ k \in Keys(db_connection, t)
            /\ Content(t, RowAt(db_connection, t, k)) = Content(t, RowAt(OnEmpty.view, t, k))

\* Record B replaced record A under the same key, and a field A had populated is null.
C3_Witness ==
    /\ Returned
    /\ last.op \in {"receive_sleep_data", "ExportExercise", "ingest_exercise"}
    /\ \E t \in Tables : \E k \in Keys(prev.rds, t) \cap Keys(OnEmpty.view, t) :
          \E c \in MutableColumns(t) :
              /\ RowAt(prev.rds, t, k)[c] # None
              /\ RowAt(rds, t, k)[c] = None

\* The samples of a glucose payload whose value is <= 0 or no number.
RejectedStamps == {StrV(Stamp2)}

GlucoseOps == {"receive_glucose_data", "ingest_glucose", "ExportGlucose"}

\* The (timestamp, value) pairs a glucose call was given, as submitted.
SubmittedGlucose ==
    IF last.op = "ExportGlucose"
    THEN LET records == ExportGlucoseBatches[last.input]
         IN [i \in 1..Len(records) |->
                [timestamp |-> records[i].timestamp, value |-> records[i].value]]
    ELSE LET body == GlucosePayloads[last.input]
             samples == IF body.hasData /\ body.hasMetrics
                        THEN MetricSamples(body.metrics) ELSE <<>>
         IN [i \in 1..Len(samples) |->
                [timestamp |-> samples[i].date, value |-> samples[i].qty]]

\* A non-empty timestamp and a value that parses to a number > 0.
ValidGlucose(g) ==
    /\ g.timestamp.t = "str" /\ g.timestamp.s # <<>>
    /\ \/ g.value.t \in {"int", "float"} /\ g.value.n > 0
       \/ g.value.t = "str" /\ IsDigits(g.value.s) /\ ParseDigits(g.value.s) > 0

ValidGlucoseCount ==
    Cardinality({i \in 1..Len(SubmittedGlucose) : ValidGlucose(SubmittedGlucose[i])})

\* C5: a glucose call reports as processed the number of submitted records that have
\* a non-empty timestamp and a parseable value > 0 (qty=0 and qty=110 report 1).
C5_ProcessedCountsValidRecords ==
    last.op \in GlucoseOps => last.result.processed = ValidGlucoseCount

\* The scenario batch (qty=0, qty=110) was ingested and 1 was reported.
C5_Witness ==
    /\ last.op \in GlucoseOps
    /\ last.input = "scenario"
    /\ ValidGlucoseCount = 1
    /\ last.result.processed = 1

ExerciseFrontEnds == {"receive_exercise_data", "ingest_exercise"}

\* The payload of the last exercise call without its metrics key.
WithoutMetrics ==
    [ExercisePayloads[last.input] EXCEPT !.hasMetrics = FALSE, !.metrics = <<>>]

\* What the last exercise call does, from the state it started in, when given only the
\* workouts of its payload.
WorkoutsOnly ==
    IF last.op = "receive_exercise_data"
    THEN receive_exercise_data(prev.view, prev.rds, last.net, WithoutMetrics, now)
    ELSE ingest_exercise(prev.view, prev.rds, last.net, WithoutMetrics, now)

\* C6: an exercise call whose payload has both a workouts key and a metrics key stores
\* the workout-derived records and nothing else: it leaves the store and reports the
\* count exactly as the same call given the workouts alone.
C6_WorkoutsTakePrecedence ==
    (/\ last.op \in ExerciseFrontEnds
     /\ ExercisePayloads[last.input].hasWorkouts
     /\ ExercisePayloads[last.input].hasMetrics)
    => /\ db_connection = WorkoutsOnly.view
       /\ rds = WorkoutsOnly.rds
       /\ last.result = WorkoutsOnly.result

\* A payload with both keys was ingested and its workout is stored.
C6_Witness ==
    /\ last.op \in ExerciseFrontEnds
    /\ last.input = "both"
    /\ Returned
    /\ StrV(Stamp1) \in Keys(rds, "exercise_data")

OneBadRecord == {"bad_first", "bad_middle", "bad_last"}

\* The table a call writes and the keys of the two valid records of its one-bad batch.
TableOf(op) ==
    CASE op \in {"receive_sleep_data", "ingest_sleep", "ExportSleep", "resolve_ingest_sleep"}
           -> "sleep_data"
      [] op \in {"receive_exercise_data", "ingest_exercise", "ExportExercise"}
           -> "exercise_data"
      [] op \in GlucoseOps -> "blood_glucose"

ValidKeysOfBadBatch(op) ==
    IF TableOf(op) = "sleep_data" THEN {StrV(Date1), StrV(Date2)}
    ELSE {StrV(Stamp1), StrV(Stamp3)}

\* C7: a batch of three records, one of them with an empty key (first, middle or last),
\* completes with the two valid records stored and a processed count of 2.
C7_PartialFailureIsolation ==
    (Called /\ last.input \in OneBadRecord)
    => /\ ~last.result.raised
       /\ last.result.processed = 2
       /\ ValidKeysOfBadBatch(last.op) \subseteq Keys(rds, TableOf(last.op))

\* A one-bad batch was ingested with the bad record in the middle, and both valid
\* records are stored.
C7_Witness ==
    /\ Called
    /\ last.input = "bad_middle"
    /\ last.result.processed = 2
    /\ ValidKeysOfBadBatch(last.op) \subseteq Keys(rds, TableOf(last.op))
    /\ ~(ValidKeysOfBadBatch(last.op) \subseteq Keys(prev.rds, TableOf(last.op)))

SleepFrontEnds == {"receive_sleep_data", "ingest_sleep"}

\* Every sample under data.metrics[].data[] of a payload, in order.
RECURSIVE SamplesUnder(_)
SamplesUnder(metrics) ==
    IF metrics = <<>> THEN <<>>
    ELSE IF Head(metrics).hasData THEN Head(metrics).data \o SamplesUnder(Tail(metrics))
    ELSE SamplesUnder(Tail(metrics))

\* The part of a string before its first blank.
BeforeBlank(q) ==
    IF \E i \in 1..Len(q) : q[i] = " "
    THEN SubSeq(q, 1, (CHOOSE i \in 1..Len(q) : q[i] = " " /\ \A j \in 1..(i - 1) : q[j] # " ") - 1)
    ELSE q

\* hours * 60, truncated to whole minutes (hours >= 0; a float is held in hundredths).
MinutesOf(hours) ==
    IF hours.t = "int" THEN IntV(hours.n * 60) ELSE IntV((hours.n * 60) \div 100)

HourFields ==
    [totalSleep |-> "sleep_duration_minutes", deep |-> "deep_sleep_minutes",
     core |-> "light_sleep_minutes", rem |-> "rem_sleep_minutes"]

\* The records the last sleep call built from its payload.
NormalisedSleep ==
    IF last.op = "receive_sleep_data" THEN SleepRecordsOf(SleepPayloads[last.input])
    ELSE GatewaySleepRecords(SleepPayloads[last.input])

\* C8: a sleep call builds exactly one record per sample under data.metrics[].data[];
\* the record's date is the sample's date string up to the first blank and each duration is the
\* sample's hour quantity (a number) times 60, truncated to an integer; the payload with date
\* "2024-01-15 00:00:00", totalSleep 7.5 and deep 1.5 is stored as one row for
\* 2024-01-15 with 450 and 90 minutes, and 1 is reported as processed (the database
\* being reachable).
C8_SleepNormalization ==
    last.op \in SleepFrontEnds =>
        LET body == SleepPayloads[last.input]
            samples == IF body.hasData /\ body.hasMetrics THEN SamplesUnder(body.metrics)
                       ELSE <<>>
        IN /\ Len(NormalisedSleep) = Len(samples)
           /\ \A i \in 1..Len(samples) :
                /\ (samples[i].date.t = "str" /\ Truthy(samples[i].date)) =>
                      NormalisedSleep[i].date = StrV(BeforeBlank(samples[i].date.s))
                /\ \A f \in DOMAIN HourFields :
                      (samples[i][f].t \in {"int", "float"} /\ Truthy(samples[i][f])) =>
                          NormalisedSleep[i][HourFields[f]] = MinutesOf(samples[i][f])
           /\ (last.input = "scenario" /\ last.net \in {Up, Reconnect}) =>
                /\ Returned
                /\ last.result.processed = 1
                /\ \E r \in rds.sleep_data :
                      /\ r.date = StrV(Date1)
                      /\ r.sleep_duration_minutes = IntV(450)
                      /\ r.deep_sleep_minutes = IntV(90)

\* The scenario payload was ingested into a database that held no row for the day.
C8_Witness ==
    /\ last.op \in SleepFrontEnds
    /\ last.input = "scenario"
    /\ StrV(Date1) \notin Keys(prev.rds, "sleep_data")
    /\ StrV(Date1) \in Keys(rds, "sleep_data")

SleepVariants == {"receive_sleep_data", "ingest_sleep", "ExportSleep", "resolve_ingest_sleep"}

\* Batches of exactly one valid sleep record.
SingleSleepRecord == {"scenario", "sparse", "full"}

\* C9: when a call re-ingests the same single sleep record as the call before it, the
\* date has exactly one row and the row's updated_at is later than it was.
C9_ReingestAdvancesUpdatedAt ==
    (last.op \in SleepVariants /\ last.repeat /\ last.input \in SingleSleepRecord)
    => /\ Cardinality({r \in rds.sleep_data : r.date = StrV(Date1)}) = 1
       /\ \A r \in rds.sleep_data : \A q \in prev.rds.sleep_data :
             (r.date = StrV(Date1) /\ q.date = StrV(Date1)) => r.updated_at > q.updated_at

\* The same single sleep record was ingested twice in a row and the date has one row.
C9_Witness ==
    /\ last.op \in SleepVariants
    /\ last.repeat
    /\ last.input \in SingleSleepRecord
    /\ Cardinality({r \in rds.sleep_data : r.date = StrV(Date1)}) = 1

\* C10: after every call, each row of the table the call writes (sleep, exercise or
\* glucose) has a created_at and an updated_at; created_at is what it was before the call for a key stored before, and
\* updated_at is the time of the call for every key the call upserted.
C10_AuditColumns ==
    Returned =>
        LET t == TableOf(last.op)
        IN \A r \in rds[t] :
              /\ "created_at" \in DOMAIN r
              /\ "updated_at" \in DOMAIN r
              /\ \A q \in prev.rds[t] :
                    q[KeyColumn(t)] = r[KeyColumn(t)] => r.created_at = q.created_at
              /\ r[KeyColumn(t)] \in Keys(OnEmpty.view, t) => r.updated_at = now

\* An exercise or glucose call upserted a key that was already stored.
C10_Witness ==
    /\ Returned
    /\ \E t \in Tables : \E k \in Keys(prev.rds, t) : k \in Keys(OnEmpty.view, t)
    /\ \A t \in Tables : \A r \in rds[t] : \A q \in prev.rds[t] :
          q[KeyColumn(t)] = r[KeyColumn(t)] => r.created_at = q.created_at

RestEndpoints == {"receive_sleep_data", "receive_exercise_data", "receive_glucose_data"}

GrpcMethods == {"ExportSleep", "ExportExercise", "ExportGlucose"}

GatewayRoutes == {"ingest_sleep", "ingest_exercise", "ingest_glucose"}

\* The number of records the last call extracted from (or was given in) its input.
RecordCount ==
    CASE last.op = "receive_sleep_data" -> Len(SleepRecordsOf(SleepPayloads[last.input]))
      [] last.op = "receive_exercise_data" ->
            Len(ExerciseRecordsOf(ExercisePayloads[last.input]))
      [] last.op = "receive_glucose_data" -> Len(GlucoseRecordsOf(GlucosePayloads[last.input]))
      [] last.op = "ingest_sleep" -> Len(GatewaySleepRecords(SleepPayloads[last.input]))
      [] last.op = "ingest_exercise" -> Len(GatewayExerciseRecords(ExercisePayloads[last.input]))
      [] last.op = "ingest_glucose" -> Len(GatewayGlucoseRecords(GlucosePayloads[last.input]))
      [] last.op = "ExportSleep" -> Len(ExportSleepBatches[last.input])
      [] last.op = "ExportExercise" -> Len(ExportExerciseBatches[last.input])
      [] last.op = "ExportGlucose" -> Len(ExportGlucoseBatches[last.input])
      [] last.op = "resolve_ingest_sleep" -> Len(GraphqlSleepBatches[last.input])
      [] OTHER -> 0

\* C11: a REST or gRPC ingestion call with at least one record that gets no connection
\* from get_db_connection returns status error with processed 0, writes no row and
\* lets no exception escape.
C11_StoreUnavailable ==
    (/\ last.op \in RestEndpoints \cup GrpcMethods
     /\ last.net = Down
     /\ RecordCount >= 1)
    => /\ ~last.result.raised
       /\ last.result.status = "error"
       /\ last.result.processed = 0
       /\ rds = prev.rds

\* A call with a record got no connection and answered error with processed 0.
C11_Witness ==
    /\ last.op \in RestEndpoints \cup GrpcMethods
    /\ last.net = Down
    /\ RecordCount >= 1
    /\ last.result.status = "error"
    /\ last.result.processed = 0
    /\ rds = prev.rds

Statuses == {"success", "warning", "error"}

\* C12: no exception raised while a call normalises or stores its records leaves the
\* call: every call ends with a result, and a result with status error carries a message.
C12_FaultsAreCaught ==
    Called =>
        /\ ~last.result.raised
        /\ last.result.status \in Statuses
        /\ last.result.status = "error" => "message" \in last.result.keys

\* An exception raised while normalising (a date that is no string) was caught by the
\* REST endpoint and answered with status error and a message; nothing was written.
C12_Witness ==
    /\ last.op = "receive_sleep_data"
    /\ last.input = "numeric_date"
    /\ ~last.result.raised
    /\ last.result.status = "error"
    /\ "message" \in last.result.keys
    /\ rds = prev.rds

\* The request body of the last call, when it was a call of a route that takes one.
LastPayload ==
    CASE last.op \in {"receive_sleep_data", "ingest_sleep"} -> SleepPayloads[last.input]
      [] last.op \in {"receive_exercise_data", "ingest_exercise"} ->
            ExercisePayloads[last.input]
      [] last.op \in {"receive_glucose_data", "ingest_glucose"} -> GlucosePayloads[last.input]

\* No data key, or neither metrics nor workouts under data.
LacksExpectedKeys(body) == ~body.hasData \/ (~body.hasMetrics /\ ~body.hasWorkouts)

\* C13: a call whose payload has no data key, or no metrics/workouts key under data,
\* extracts no record, writes nothing and ends with status success and processed 0,
\* for sleep, exercise and glucose.
C13_EmptyEnvelope ==
    (/\ last.op \in RestEndpoints \cup GatewayRoutes
     /\ last.net = Up
     /\ LacksExpectedKeys(LastPayload))
    => /\ RecordCount = 0
       /\ rds = prev.rds
       /\ db_connection = prev.view
       /\ last.result.status = "success"
       /\ last.result.processed = 0

\* A sleep payload without a data key was answered with success and a count of 0.
C13_Witness ==
    /\ last.op \in {"receive_sleep_data", "receive_exercise_data"}
    /\ LacksExpectedKeys(LastPayload)
    /\ RecordCount = 0
    /\ rds = prev.rds
    /\ last.result.status = "success"
    /\ last.result.processed = 0

ResultFields == {"status", "processed", "message", "timestamp"}

\* C14: every result a call returns (success, warning or error) has the four fields
\* status, processed, message and timestamp, and its status is success, warning or error.
C14_StructuredResult ==
    Returned =>
        /\ ResultFields \subseteq last.result.keys
        /\ last.result.status \in Statuses

\* A call returned a result with the four fields.
C14_Witness ==
    /\ Returned
    /\ last.result.status = "success"
    /\ last.result.processed >= 1
    /\ ResultFields \subseteq last.result.keys

\* What the REST server does with the payload of the last gateway call, from the state
\* that call started in.
RestCounterpart ==
    CASE last.op = "ingest_sleep" ->
            receive_sleep_data(prev.view, prev.rds, last.net, SleepPayloads[last.input], now)
      [] last.op = "ingest_exercise" ->
            receive_exercise_data(prev.view, prev.rds, last.net, ExercisePayloads[last.input], now)
      [] last.op = "ingest_glucose" ->
            receive_glucose_data(prev.view, prev.rds, last.net, GlucosePayloads[last.input], now)

\* C15: a payload ingested through the gateway and the gRPC servicer leaves the same
\* stored rows and reports the same status and processed count as the same payload
\* ingested through the REST server from the same store state (the database being
\* reachable).
C15_FrontEndsAgree ==
    (last.op \in GatewayRoutes /\ prev.view = prev.rds /\ last.net = Up)
    => /\ rds = RestCounterpart.rds
       /\ last.result.status = RestCounterpart.result.status
       /\ last.result.processed = RestCounterpart.result.processed

\* A payload went through the gateway and the outcome is the REST server's outcome.
C15_Witness ==
    /\ last.op \in GatewayRoutes
    /\ prev.view = prev.rds
    /\ last.result.processed >= 1
    /\ rds # prev.rds
    /\ rds = RestCounterpart.rds
    /\ last.result.status = RestCounterpart.result.status
    /\ last.result.processed = RestCounterpart.result.processed

ExerciseOps == {"receive_exercise_data", "ingest_exercise", "ExportExercise"}

\* The exercise records the last call hands to its store loop, in order.
ExerciseBatch ==
    CASE last.op = "receive_exercise_data" -> ExerciseRecordsOf(ExercisePayloads[last.input])
      [] last.op = "ingest_exercise" -> GatewayExerciseRecords(ExercisePayloads[last.input])
      [] last.op = "ExportExercise" -> ExportExerciseBatches[last.input]

\* The exercise rows the store loop of the last call writes for record i alone.
StoredAlone(i) ==
    IF last.op = "receive_exercise_data"
    THEN SaveExerciseLoop(<<ExerciseBatch[i]>>, {}, 0, now).tbl
    ELSE ExportExerciseLoop(<<ExerciseBatch[i]>>, {}, 0, now).tbl

\* C16: after an exercise call, a key given by several records of the batch holds the
\* field values of the record that comes last in the list (each key holds the values
\* of the last record of the batch that has it).
C16_LastInBatchWins ==
    (last.op \in ExerciseOps /\ Returned /\ last.net \in {Up, Reconnect}) =>
        \A i \in 1..Len(ExerciseBatch) : \A r \in StoredAlone(i) :
            (\A j \in (i + 1)..Len(ExerciseBatch) :
                \A q \in StoredAlone(j) : q.timestamp # r.timestamp)
            => /\ r.timestamp \in Keys(db_connection, "exercise_data")
               /\ Content("exercise_data", RowAt(db_connection, "exercise_data", r.timestamp))
                    = Content("exercise_data", r)

\* A batch with two records of one key was stored, and the two records differ.
C16_Witness ==
    /\ last.op \in ExerciseOps
    /\ Returned
    /\ last.result.processed = 2
    /\ \E i, j \in 1..Len(ExerciseBatch) :
          /\ i < j
          /\ \E r \in StoredAlone(i) : \E q \in StoredAlone(j) :
                /\ r.timestamp = q.timestamp
                /\ Content("exercise_data", r) # Content("exercise_data", q)
                /\ Content("exercise_data", RowAt(rds, "exercise_data", q.timestamp))
                     = Content("exercise_data", q)

\* Batches whose record with the empty key is followed by valid records.
BadRecordNotLast == {"bad_first", "bad_middle"}

\* The key of the valid record that comes after the bad one in those batches.
KeyAfterBadRecord(op) == IF TableOf(op) = "sleep_data" THEN StrV(Date2) ELSE StrV(Stamp3)

\* C17: the records that follow a record the store refuses are still upserted: after a
\* call on a batch whose bad record is first or in the middle, the connection holds the
\* row of the valid record that comes after it.
C17_EveryRecordAttempted ==
    (Called /\ last.net \in {Up, Reconnect} /\ last.input \in BadRecordNotLast)
    => KeyAfterBadRecord(last.op) \in Keys(db_connection, TableOf(last.op))

\* The record after the bad one was written by the call.
C17_Witness ==
    /\ Called
    /\ last.input \in BadRecordNotLast
    /\ KeyAfterBadRecord(last.op) \in Keys(db_connection, TableOf(last.op))
    /\ KeyAfterBadRecord(last.op) \notin Keys(prev.view, TableOf(last.op))

\* C18: no row is stored under an empty or absent key: in every state every sleep row
\* has a date, and every exercise and glucose row a timestamp, that is a non-empty
\* string and not the zero date a server stores for an empty one.
C18_NoEmptyKey ==
    \A store \in {rds, db_connection} : \A t \in Tables : \A r \in store[t] :
        /\ r[KeyColumn(t)].t = "str"
        /\ r[KeyColumn(t)].s # <<>>
        /\ r[KeyColumn(t)].s # ZeroDate

\* A batch with an empty-key record was ingested and the record left no row.
C18_Witness ==
    /\ Returned
    /\ last.input \in OneBadRecord
    /\ last.result.processed = 2
    /\ \A t \in Tables : \A r \in rds[t] : r[KeyColumn(t)].s \notin {<<>>, ZeroDate}

\* C19: get_db_connection always terminates: it makes one attempt, makes exactly one
\* further fresh connect when that attempt fails and none otherwise, and then returns a
\* connection or None without raising; a call that got None leaves the store untouched.
C19_ConnectionTerminates ==
    Called /\ last.op # "resolve_ingest_sleep" =>
        LET conn == get_db_connection(prev.view, prev.rds, last.net)
        IN /\ conn.attempts \in 1..2
           /\ conn.attempts = 2 <=> ~last.net[1]
           /\ conn.ok <=> (last.net[1] \/ last.net[2])
           /\ ~conn.raised
           /\ ~conn.ok => rds = prev.rds

\* Both attempts of a gRPC call failed and the method answered without a connection.
C19_Witness ==
    /\ Called
    /\ last.op \in GrpcMethods
    /\ last.net = Down
    /\ RecordCount > 0
    /\ last.result.status = "error"

\* The key and the column of the record of the "unparseable" payload whose optional
\* numeric field holds the string "x".
UnparseableKey(op) == IF TableOf(op) = "sleep_data" THEN StrV(Date2) ELSE StrV(Stamp2)

UnparseableColumn(op) ==
    IF TableOf(op) = "sleep_data" THEN "deep_sleep_minutes" ELSE "duration_minutes"

\* C20: a record whose populated optional numeric field cannot be parsed as a number is
\* stored with that field null and counted as processed, as is the valid record before
\* it: the call returns with both records counted and the row holds NULL in the column.
C20_UnparseableOptionalIsNull ==
    (/\ Called
     /\ last.op \in {"receive_sleep_data", "receive_exercise_data", "ingest_sleep", "ingest_exercise"}
     /\ last.input = "unparseable"
     /\ last.net \in {Up, Reconnect})
    => /\ Returned
       /\ last.result.status = "success"
       /\ last.result.processed = 2
       /\ \E r \in rds[TableOf(last.op)] :
             /\ r[KeyColumn(TableOf(last.op))] = UnparseableKey(last.op)
             /\ r[UnparseableColumn(last.op)] = None

\* The REST exercise endpoint was given the record with "qty": "x" after a valid one and
\* returned with one record counted.
C20_Witness ==
    /\ last.op = "receive_exercise_data"
    /\ last.input = "unparseable"
    /\ last.net = Up
    /\ Returned
    /\ last.result.processed = 1
    /\ StrV(Stamp1) \in Keys(rds, "exercise_data")

\* The optional fields of a raw sleep sample and the columns they are stored in.
SleepSourceFields ==
    [inBedStart |-> "bedtime", inBedEnd |-> "wake_time",
     totalSleep |-> "sleep_duration_minutes", deep |-> "deep_sleep_minutes",
     core |-> "light_sleep_minutes", rem |-> "rem_sleep_minutes"]

\* Payloads of one sleep sample with absent, empty and null optional fields.
WithMissingFields == {"sparse", "null_field"}

\* C21: a sleep sample whose optional fields are absent, empty or null is ingested
\* without error by the REST server and by the gateway: the call returns success with
\* the record counted, and the row holds NULL in the column of every such field.
C21_MissingStaysNull ==
    (/\ last.op \in SleepFrontEnds
     /\ last.input \in WithMissingFields
     /\ last.net \in {Up, Reconnect})
    => LET sample == SleepPayloads[last.input].metrics[1].data[1]
           k == StrV(BeforeBlank(sample.date.s))
       IN /\ Returned
          /\ last.result.status = "success"
          /\ last.result.processed = 1
          /\ k \in Keys(rds, "sleep_data")
          /\ \A f \in DOMAIN SleepSourceFields :
                sample[f] \in {Absent, None, EmptyStr} =>
                    RowAt(rds, "sleep_data", k)[SleepSourceFields[f]] = None

\* The REST server stored the sample with "rem": null and an empty inBedStart, and the
\* row holds NULL for them.
C21_Witness ==
    /\ last.op = "receive_sleep_data"
    /\ last.input = "null_field"
    /\ Returned
    /\ \E r \in rds.sleep_data :
          r.date = StrV(Date2) /\ r.rem_sleep_minutes = None /\ r.bedtime = None

\* Payloads with a workouts key and no metrics key.
WorkoutPayloads == {"workouts", "workout_sparse", "same_key"}

\* The activity type of a workout: its name, else its activity-type label, else the
\* generic label.
ActivityTypeOf(w) ==
    IF w.workoutName # Absent THEN w.workoutName
    ELSE IF w.workoutActivityType # Absent THEN w.workoutActivityType
    ELSE StrV(<<"Exercise">>)

\* C22: a workouts payload yields one exercise record per entry, keyed by the entry's
\* start time; the call counts every entry, and the row of each start time holds the
\* activity type of the (last) entry with that start: its name, else its activity-type
\* label, else "Exercise".
C22_WorkoutActivityType ==
    (/\ last.op \in ExerciseFrontEnds
     /\ last.input \in WorkoutPayloads
     /\ last.net \in {Up, Reconnect})
    => LET workouts == ExercisePayloads[last.input].workouts
       IN /\ Returned
          /\ RecordCount = Len(workouts)
          /\ last.result.processed = Len(workouts)
          /\ \A i \in 1..Len(workouts) :
                (\A j \in (i + 1)..Len(workouts) : workouts[j].start # workouts[i].start)
                => /\ workouts[i].start \in Keys(rds, "exercise_data")
                   /\ RowAt(rds, "exercise_data", workouts[i].start).activity_type
                          = ActivityTypeOf(workouts[i])

\* The REST server stored a workout that has no name under its activity-type label.
C22_Witness ==
    /\ last.op = "receive_exercise_data"
    /\ last.input = "workout_sparse"
    /\ Returned
    /\ \E r \in rds.exercise_data :
          r.timestamp = StrV(Stamp1) /\ r.activity_type = StrV(<<"Walk">>)

\* The whole part of a non-negative number (a float is held in hundredths).
WholeOf(qty) == IF qty.t = "int" THEN IntV(qty.n) ELSE IntV(qty.n \div 100)

\* C23: when the REST exercise endpoint is given a payload with metrics and no workouts
\* key, it builds one record per sample of data.metrics[].data[], and every sample with
\* a date and a non-zero numeric qty has a row under its date with activity_type
\* "Exercise", duration_minutes the whole minutes of qty, and every other optional
\* column NULL.
C23_MetricsDerivedExercise ==
    (/\ last.op = "receive_exercise_data"
     /\ ExercisePayloads[last.input].hasData
     /\ ExercisePayloads[last.input].hasMetrics
     /\ ~ExercisePayloads[last.input].hasWorkouts
     /\ last.net \in {Up, Reconnect})
    => LET samples == SamplesUnder(ExercisePayloads[last.input].metrics)
       IN /\ Returned
          /\ RecordCount = Len(samples)
          /\ \A i \in 1..Len(samples) :
                (/\ samples[i].date.t = "str" /\ samples[i].date.s # <<>>
                 /\ samples[i].qty.t \in {"int", "float"} /\ samples[i].qty.n > 0)
                => /\ samples[i].date \in Keys(rds, "exercise_data")
                   /\ LET r == RowAt(rds, "exercise_data", samples[i].date)
                      IN /\ r.activity_type = StrV(<<"Exercise">>)
                         /\ r.duration_minutes = WholeOf(samples[i].qty)
                         /\ \A c \in ExerciseMutable \ {"activity_type", "duration_minutes"} :
                               r[c] = None

\* The REST endpoint stored the metrics payload: 30 minutes under the first sample's date.
C23_Witness ==
    /\ last.op = "receive_exercise_data"
    /\ last.input = "metrics"
    /\ Returned
    /\ last.result.processed = 2
    /\ \E r \in rds.exercise_data :
          r.timestamp = StrV(Stamp1) /\ r.duration_minutes = IntV(30) /\ r.calories_burned = None

\* C26: a call for one kind leaves the committed rows of the tables of the other two
\* kinds as they were, whatever happened in the calls before it.
C26_KindsIndependent ==
    Called => \A t \in Tables \ {TableOf(last.op)} : rds[t] = prev.rds[t]

\* A call changed the committed rows of its own table while the other two tables held
\* rows, and left those alone.
C26_Witness ==
    /\ Returned
    /\ rds[TableOf(last.op)] # prev.rds[TableOf(last.op)]
    /\ \A t \in Tables \ {TableOf(last.op)} : rds[t] # {} /\ rds[t] = prev.rds[t]

\* The keys under which the records of the last gRPC batch are stored (an empty key is
\* stored as the zero date by a lenient server).
GrpcBatchKeys ==
    LET raw == CASE last.op = "ExportSleep" ->
                        {ExportSleepBatches[last.input][i].date : i \in 1..RecordCount}
                 [] last.op = "ExportExercise" ->
                        {ExportExerciseBatches[last.input][i].timestamp : i \in 1..RecordCount}
                 [] last.op = "ExportGlucose" ->
                        {ExportGlucoseBatches[last.input][i].timestamp : i \in 1..RecordCount}
    IN {IF k = EmptyStr THEN StrV(ZeroDate) ELSE k : k \in raw}

\* C28: rows a gRPC method wrote before it aborted with an exception are never made
\* durable: a row that is committed after a call was committed before it, or belongs to
\* the table the call writes and to a key of the call's own batch.
C28_AbortedRowsNeverDurable ==
    (Called /\ last.op \in GrpcMethods)
    => \A t \in Tables : \A r \in rds[t] :
          \/ r[KeyColumn(t)] \in Keys(prev.rds, t)
          \/ t = TableOf(last.op) /\ r[KeyColumn(t)] \in GrpcBatchKeys

\* A gRPC method aborted after it had written a row: the connection holds a row that is
\* not committed.
C28_Witness ==
    /\ last.op \in GrpcMethods
    /\ last.result.raised
    /\ rds = prev.rds
    /\ \E t \in Tables : Keys(db_connection, t) \ Keys(rds, t) # {}

\* The optional numeric columns of the sleep and exercise tables.
OptionalNumeric(t) ==
    IF t = "sleep_data" THEN SleepMutable \ {"bedtime", "wake_time"}
    ELSE IF t = "exercise_data" THEN ExerciseMutable \ {"activity_type"}
    ELSE {}

IsZero(v) == v.t \in {"int", "float"} /\ v.n = 0

\* The last call's records as <<key, column, source value>> triples, one per optional
\* numeric field the front end reads from the sample or message.
SourceNumbers ==
    CASE last.op \in SleepFrontEnds ->
            LET samples == SamplesUnder(SleepPayloads[last.input].metrics)
            IN {<<StrV(BeforeBlank(samples[i].date.s)), HourFields[f], samples[i][f]>> :
                    i \in {n \in 1..Len(samples) : samples[n].date.t = "str"},
                    f \in DOMAIN HourFields}
      [] last.op \in ExerciseFrontEnds /\ ~ExercisePayloads[last.input].hasWorkouts ->
            LET samples == SamplesUnder(ExercisePayloads[last.input].metrics)
            IN {<<samples[i].date, "duration_minutes", samples[i].qty>> : i \in 1..Len(samples)}
      [] last.op \in ExerciseFrontEnds /\ ExercisePayloads[last.input].hasWorkouts ->
            LET workouts == ExercisePayloads[last.input].workouts
            IN {<<workouts[i].start, "calories_burned", workouts[i].qty>> :
                    i \in 1..Len(workouts)}
      [] last.op = "ExportSleep" ->
            LET records == ExportSleepBatches[last.input]
            IN {<<records[i].date, c, records[i][c]>> :
                    i \in 1..Len(records), c \in OptionalNumeric("sleep_data")}
      [] last.op = "ExportExercise" ->
            LET records == ExportExerciseBatches[last.input]
            IN {<<records[i].timestamp, c, records[i][c]>> :
                    i \in 1..Len(records), c \in OptionalNumeric("exercise_data")}
      [] OTHER -> {}

\* C30: an optional numeric field whose source value is exactly 0 is stored as NULL, as
\* a missing field is, by the REST server and by the gRPC servicer: after a call that
\* returned, the row of a record whose source field is 0 (and is not given another
\* value under the same key in the batch) holds NULL in the field's column.
C30_ZeroStoredAsNull ==
    (Returned /\ deployment \in {"rest", "grpc"} /\ last.net \in {Up, Reconnect} /\ last.result.status = "success")
    => \A x \in SourceNumbers :
          (/\ IsZero(x[3])
           /\ x[1] # EmptyStr
           /\ \A y \in SourceNumbers : (y[1] = x[1] /\ y[2] = x[2]) => IsZero(y[3]))
          => /\ x[1] \in Keys(rds, TableOf(last.op))
             /\ RowAt(rds, TableOf(last.op), x[1])[x[2]] = None

\* A gRPC call stored a record whose optional numeric fields are 0, and a REST call one
\* whose qty is 0.
C30_Witness ==
    /\ Returned
    /\ \/ /\ last.op = "ExportExercise" /\ last.input = "same_key"
          /\ \E r \in rds.exercise_data : r.timestamp = StrV(Stamp1) /\ r.steps = None
       \/ /\ last.op = "receive_exercise_data" /\ last.input = "metrics"
          /\ \E r \in rds.exercise_data : r.timestamp = StrV(Stamp2) /\ r.duration_minutes = None

\* C30 as stated: no optional numeric column of a row stored by the REST server or the
\* gRPC servicer ever holds 0.
C30_NoStoredZero ==
    deployment \in {"rest", "grpc"}
    => \A t \in Tables : \A r \in rds[t] : \A c \in OptionalNumeric(t) : ~IsZero(r[c])

\* The keys the last call upserts when nothing goes wrong, on a database of its own.
UpsertedKeys ==
    Keys(Handle(last.op, last.input, Up, EmptyTables, EmptyTables, now).rds, TableOf(last.op))

\* C29: when a call reports a count k > 0 of processed records, its upserts have been
\* committed (every key it upserts is in the committed table); and when the final
\* commit of save_glucose_to_rds fails and is rolled back, the call does not report
\* success and reports no processed record.
C29_CountIsCommitted ==
    /\ (Returned /\ last.op # "resolve_ingest_sleep" /\ last.result.processed > 0)
       => UpsertedKeys \subseteq Keys(rds, TableOf(last.op))
    /\ (last.op = "receive_glucose_data" /\ last.net = CommitFails)
       => last.result.status # "success" /\ last.result.processed <= 0

\* The REST glucose endpoint accepted records, its commit failed, and the committed
\* store is as it was before the call.
C29_Witness ==
    /\ last.op = "receive_glucose_data"
    /\ last.net = CommitFails
    /\ Returned
    /\ UpsertedKeys \ Keys(prev.rds, "blood_glucose") # {}
    /\ rds = prev.rds

-----------------------------------------------------------------------------
(* The gRPC server with its thread pool (grpc_server.py serve): calls are served
   concurrently, one statement at a time, all on the one global connection.  The
   connection was made by create_tables() before the server started and stays up. *)

\* The records of the batch a worker is serving.
BatchOf(th) ==
    CASE th.method = "ExportSleep" -> ExportSleepBatches[th.batch]
      [] th.method = "ExportExercise" -> ExportExerciseBatches[th.batch]
      [] th.method = "ExportGlucose" -> ExportGlucoseBatches[th.batch]
      [] OTHER -> <<>>

\* The batches the concurrent calls are drawn from: for each method one of several
\* records (for sleep with an empty date in the middle, for exercise with two records
\* of one key, for glucose with invalid values), and for two of them a second batch.
BatchNames(method) ==
    CASE method = "ExportSleep" -> {"bad_middle", "empty"}
      [] method = "ExportExercise" -> {"full", "same_key"}
      [] method = "ExportGlucose" -> {"invalid"}

\* One iteration of a method's loop on the rows the connection sees.
ExecuteOne(method, record, view, ts) ==
    CASE method = "ExportSleep" ->
            LET out == ExportSleepLoop(<<record>>, view.sleep_data, 0, ts)
            IN [view |-> [view EXCEPT !.sleep_data = out.tbl],
                processed |-> out.processed, raised |-> out.raised]
      [] method = "ExportExercise" ->
            LET out == ExportExerciseLoop(<<record>>, view.exercise_data, 0, ts)
            IN [view |-> [view EXCEPT !.exercise_data = out.tbl],
                processed |-> out.processed, raised |-> out.raised]
      [] method = "ExportGlucose" ->
            LET out == ExportGlucoseLoop(<<record>>, view.blood_glucose, 0, ts)
            IN [view |-> [view EXCEPT !.blood_glucose = out.tbl],
                processed |-> out.processed, raised |-> out.raised]

\* Another worker is using the connection: pymysql connections are not thread-safe,
\* and an operation that overlaps another one may raise.
Racing(t) == \E u \in Threads \ {t} : pool[u].pc = "loop"

\* A variant that commits at any point of the loop.
ReadyToCommitAnywhere(th) == th.pc = "loop"

\* The loop of the call is over: the next statement is conn.commit().
ReadyToCommit(th) == th.pc = "loop" /\ th.idx > Len(BatchOf(th))

\* A worker takes a call: get_db_connection() pings the global connection.
Accept ==
    /\ deployment = "grpc" /\ now < MaxClock
    /\ \E t \in Threads :
         /\ pool[t].pc # "loop"
         /\ \E method \in GrpcMethods : \E b \in BatchNames(method) :
               pool' = [pool EXCEPT ![t] = [pc |-> "loop", method |-> method, batch |-> b,
                                            idx |-> 1, processed |-> 0, commits |-> 0]]
    /\ now' = now + 1
    /\ UNCHANGED <<deployment, sql_mode, rds, db_connection, last, prev>>

\* A worker runs one iteration of its loop.  When it overlaps another worker the
\* statement may be lost before it reaches the server ("lost") or its answer may be
\* ("answer_lost"); either way the call ends with the exception.
ExecuteRecord ==
    \E t \in Threads :
        /\ pool[t].pc = "loop" /\ pool[t].idx <= Len(BatchOf(pool[t]))
        /\ \E race \in (IF Racing(t) THEN {"none", "lost", "answer_lost"} ELSE {"none"}) :
              LET out == ExecuteOne(pool[t].method, BatchOf(pool[t])[pool[t].idx],
                                    db_connection, now)
              IN /\ db_connection' = IF race = "lost" THEN db_connection ELSE out.view
                 /\ pool' = [pool EXCEPT ![t] =
                                IF out.raised \/ race # "none"
                                THEN [@ EXCEPT !.pc = "raised"]
                                ELSE [@ EXCEPT !.idx = @ + 1,
                                               !.processed = @ + out.processed]]
        /\ UNCHANGED <<deployment, sql_mode, rds, now, last, prev>>

\* A worker commits: everything the connection's transaction holds becomes durable.
Commit ==
    \E t \in Threads :
        /\ ReadyToCommit(pool[t])
        /\ \E lost \in (IF Racing(t) THEN BOOLEAN ELSE {FALSE}) :
              /\ rds' = IF lost THEN rds ELSE db_connection
              /\ pool' = [pool EXCEPT ![t] =
                             IF lost THEN [@ EXCEPT !.pc = "raised"]
                             ELSE [@ EXCEPT !.pc = "done", !.commits = @ + 1]]
        /\ UNCHANGED <<deployment, sql_mode, db_connection, now, last, prev>>

ServeNext == Accept \/ ExecuteRecord \/ Commit

\* The gRPC server process at its start.
ServeInit == Init /\ deployment = "grpc"

Serve == ServeInit /\ [][ServeNext]_vars

\* C24: within one call the transaction is committed at most once, by the call's own
\* commit statement and only after its loop has gone through every record of the batch:
\* a call that has answered has committed exactly once, one that is in its loop or has
\* aborted has not, and the committed store changes only in the step in which a worker
\* whose loop is over commits.
C24_SingleCommitAfterLoop ==
    /\ [](\A t \in Threads :
            /\ pool[t].commits \in {0, 1}
            /\ pool[t].commits = 1 <=> pool[t].pc = "done"
            /\ pool[t].pc = "done" => pool[t].idx = Len(BatchOf(pool[t])) + 1)
    /\ [][rds' # rds =>
            \E t \in Threads :
                /\ pool[t].pc = "loop" /\ pool[t].idx = Len(BatchOf(pool[t])) + 1
                /\ pool[t].commits = 0 /\ pool'[t].commits = 1]_vars

\* A worker went through a batch of three records and committed once.
C24_Witness ==
    \E t \in Threads :
        /\ pool[t].pc = "done"
        /\ pool[t].commits = 1
        /\ pool[t].idx = 4
        /\ pool[t].processed >= 2
        /\ rds = db_connection

\* Every record of every batch of a family of batches.
RecordsOf(batches) ==
    UNION {{batches[b][i] : i \in 1..Len(batches[b])} : b \in DOMAIN batches}

\* The contents the records a client can submit for a table are stored with (an empty
\* key is stored as the zero date by a lenient server).
SubmittedContents(t) ==
    LET stored(data) == [c \in DOMAIN data |->
                            IF c = KeyColumn(t) /\ data[c] = EmptyStr THEN StrV(ZeroDate)
                            ELSE data[c]]
    IN CASE t = "sleep_data" ->
              {stored(ExportSleepData(r)) : r \in RecordsOf(ExportSleepBatches)}
         [] t = "exercise_data" ->
              {stored(ExportExerciseData(r)) : r \in RecordsOf(ExportExerciseBatches)}
         [] t = "blood_glucose" ->
              {stored(ExportGlucoseData(r)) : r \in RecordsOf(ExportGlucoseBatches)}

\* C25: under every interleaving of the workers' statements and commits, the committed
\* store and the connection hold at most one row per key, and the row of a key holds
\* all the field values of one record submitted for that key (or is a row the database
\* held at the start), never values of two records.
C25_ConcurrentUniqueness ==
    \A store \in {rds, db_connection} : \A t \in Tables :
        /\ \A r1, r2 \in store[t] : r1[KeyColumn(t)] = r2[KeyColumn(t)] => r1 = r2
        /\ \A r \in store[t] :
              \/ Content(t, r) \in {Content(t, q) : q \in SeedTables[t]}
              \/ \E c \in SubmittedContents(t) :
                    /\ c[KeyColumn(t)] = r[KeyColumn(t)]
                    /\ c = Content(t, r)

\* Two workers are in their loops on batches of the same method, each has written, and
\* the key both batches hold has its row.
C25_Witness ==
    /\ pool["t1"].pc = "loop" /\ pool["t2"].pc = "loop"
    /\ pool["t1"].method = "ExportExercise" /\ pool["t2"].method = "ExportExercise"
    /\ pool["t1"].batch = "full" /\ pool["t2"].batch = "same_key"
    /\ pool["t1"].idx = 2 /\ pool["t2"].idx = 3
    /\ StrV(Stamp1) \in Keys(db_connection, "exercise_data")

\* The keys of the rows a worker has written in the call it is serving.
WrittenBy(th) ==
    LET records == BatchOf(th)
        key(r) == IF th.method = "ExportSleep" THEN r.date ELSE r.timestamp
    IN {key(records[i]) : i \in 1..(th.idx - 1)}

\* C27: the commit of one call makes durable only that call's own writes: when a worker
\* commits while another is in the middle of its loop, a row the other has written, and
\* that neither was committed before nor is written by the committing call as well, is
\* not committed by the step.
C27_CommitIsolation ==
    [][\A t, u \in Threads :
          (/\ t # u
           /\ pool'[t].commits > pool[t].commits
           /\ pool[u].pc = "loop"
           /\ pool[u].idx <= Len(BatchOf(pool[u])))
          => \A k \in WrittenBy(pool[u]) :
                (/\ k \notin Keys(rds, TableOf(pool[u].method))
                 /\ ~(pool[t].method = pool[u].method /\ k \in WrittenBy(pool[t])))
                => k \notin Keys(rds', TableOf(pool[u].method))]_vars

\* One worker has committed while the other, having written a record, still has
\* records of its batch to go.
C27_Witness ==
    \E t, u \in Threads :
        /\ pool[t].pc = "done"
        /\ pool[u].pc = "loop"
        /\ pool[u].idx > 1
        /\ pool[u].idx <= Len(BatchOf(pool[u]))

====
